---- MODULE Spec2Model ----
\* Scan-result normalisation layer of the network recon toolkit: the nmap and
\* masscan adapters (src/pkg/nmap/scanner.go), each wrapping one external
\* executable run through os/exec under the caller's context.
\*
\* A Go string is a sequence of one-character strings; an argument vector is a
\* sequence of such strings. An error is a record: the nil error, or a message.
EXTENDS Integers, Sequences, FiniteSets

VARIABLES
    pc,         \* per call: where the goroutine running Scan stands
    adapter,    \* per call: the receiver, "nmap" or "masscan"
    target,     \* per call: the target parameter
    config,     \* per call: the *ScanConfig parameter
    args,       \* per call: the local argument vector
    ctx,        \* per call: the context, "active" or the reason it is done
    ctxDoneAt,  \* per call: what the process was doing when the context ended
    proc,       \* per call: the external process
    status,     \* per call: the exit status of the process
    spawned,    \* per call: how many processes the call has started
    emitted,    \* per call: everything the process has written to stdout
    pipe,       \* per call: bytes written to the stdout pipe and not yet copied
    stdoutBuf,  \* per call: the buffer cmd.Output copies stdout into
    copier,     \* per call: the goroutine copying the pipe into the buffer
    watcher,    \* per call: the goroutine watching the context
    watchErr,   \* per call: the error the watcher hands to Wait
    waitErr,    \* per call: the error Process.Wait produced
    result,     \* per call: the *ScanResult returned
    retErr,     \* per call: the error returned
    portsOut,   \* per call: the []*models.Port GetPortsFromJSON returned
    scanMgr,    \* the ScannerManager
    gop,        \* per goroutine: the ScannerManager method it is executing
    gret,       \* per goroutine: what its last ScannerManager method returned
    regLog,     \* the scanners of the completed RegisterScanner calls, in order
    crashed,    \* the runtime has stopped the program with a fatal error
    env,        \* the environment of the program: config file, database, PATH
    app,        \* the program: where main stands and what it holds
    db          \* the database: the rows of hosts and ports, the last error

vars == <<pc, adapter, target, config, args, ctx, ctxDoneAt, proc, status, spawned, emitted,
          pipe, stdoutBuf, copier, watcher, watchErr, waitErr, result, retErr,
          portsOut, scanMgr, gop, gret, regLog, crashed, env, app, db>>

\* The state outside the calls of Scan.
sideVars == <<portsOut, scanMgr, gop, gret, regLog, crashed, env, app, db>>

----------------------------------------------------------------------------
\* Bounds of the model.

\* Longest stdout, in chunks, a process writes.
MaxOut == 3
\* Longest extra-arguments string, in characters.
MaxArgLen == 3

----------------------------------------------------------------------------
\* Strings.

Digits == <<"0", "1", "2", "3", "4", "5", "6", "7", "8", "9">>

IsDigit(ch) == \E i \in 1..10 : Digits[i] = ch

DigitVal(ch) == (CHOOSE i \in 1..10 : Digits[i] = ch) - 1

\* unicode.IsSpace, on the characters the inputs use.
IsSpace(ch) == ch \in {" ", "\t"}

RECURSIVE SeqsUpTo(_, _)
\* All sequences over alphabet S of length at most n.
SeqsUpTo(S, n) ==
    IF n = 0 THEN {<<>>}
    ELSE LET shorter == SeqsUpTo(S, n - 1)
         IN  shorter \cup {Append(s, x) : s \in shorter, x \in S}

RECURSIVE Flatten(_)
\* The concatenation of a sequence of strings.
Flatten(ss) == IF ss = <<>> THEN <<>> ELSE Head(ss) \o Flatten(Tail(ss))

RECURSIVE FieldsFrom(_, _, _)
\* strings.Fields: s is what is left to read, cur the field being read
\* (<<>> when between fields), acc the fields found so far.
FieldsFrom(s, cur, acc) ==
    IF s = <<>> THEN (IF cur = <<>> THEN acc ELSE Append(acc, cur))
    ELSE IF IsSpace(Head(s))
         THEN FieldsFrom(Tail(s), <<>>, IF cur = <<>> THEN acc ELSE Append(acc, cur))
         ELSE FieldsFrom(Tail(s), Append(cur, Head(s)), acc)

Fields(s) == FieldsFrom(s, <<>>, <<>>)

RECURSIVE ItoaNat(_)
ItoaNat(n) == IF n < 10 THEN <<Digits[n + 1]>>
              ELSE Append(ItoaNat(n \div 10), Digits[(n % 10) + 1])

\* strconv.Itoa
Itoa(n) == IF n < 0 THEN <<"-">> \o ItoaNat(-n) ELSE ItoaNat(n)

RECURSIVE DigitsVal(_, _)
DigitsVal(s, acc) == IF s = <<>> THEN acc
                     ELSE DigitsVal(Tail(s), 10 * acc + DigitVal(Head(s)))

\* strconv.Atoi: an optional sign, then one or more decimal digits.
AtoiBody(s) == IF s # <<>> /\ Head(s) \in {"+", "-"} THEN Tail(s) ELSE s

AtoiOk(s) == /\ AtoiBody(s) # <<>>
             /\ \A i \in 1..Len(AtoiBody(s)) : IsDigit(AtoiBody(s)[i])

Atoi(s) == IF s # <<>> /\ Head(s) = "-" THEN -DigitsVal(AtoiBody(s), 0)
           ELSE DigitsVal(AtoiBody(s), 0)

----------------------------------------------------------------------------
\* Errors.

NilErr == [isnil |-> TRUE, msg |-> <<>>]

NewErr(m) == [isnil |-> FALSE, msg |-> m]

\* fmt.Errorf(prefix + "%w", e)
Wrap(prefix, e) == NewErr(<<prefix>> \o e.msg)

\* err.Error()
ErrorString(e) == e.msg

----------------------------------------------------------------------------
\* Scan configuration and validation.

\* (?:^…$) of `^(\d+(-\d+)?)(,\d+(-\d+)?)*$` as its automaton: "start" wants
\* the first digit of an item, "num1" reads the item's first number, "dash"
\* wants the first digit after '-', "num2" reads the second number.
PortStep(q, ch) ==
    CASE q = "start" /\ IsDigit(ch) -> "num1"
      [] q = "num1" /\ IsDigit(ch) -> "num1"
      [] q = "num1" /\ ch = "-" -> "dash"
      [] q = "num1" /\ ch = "," -> "start"
      [] q = "dash" /\ IsDigit(ch) -> "num2"
      [] q = "num2" /\ IsDigit(ch) -> "num2"
      [] q = "num2" /\ ch = "," -> "start"
      [] OTHER -> "fail"

RECURSIVE PortRun(_, _)
PortRun(q, s) == IF s = <<>> THEN q ELSE PortRun(PortStep(q, Head(s)), Tail(s))

\* Mutant: the second number of a range may be left out ("80-").
portRegexMatchOpenRange(s) == PortRun("start", s) \in {"num1", "dash", "num2"}

\* portRegex.MatchString
portRegexMatch(s) == PortRun("start", s) \in {"num1", "num2"}

\* Bounds of the nmap timing template.
MinTiming == 0
MaxTiming == 5
\* Largest accepted masscan thread count.
MaxThreads == 100000

\* Mutant: any integer is taken as a timing template.
NmapValidateConfigAnyInteger(cfg) ==
    IF cfg.Ports # <<>> /\ ~portRegexMatch(cfg.Ports)
    THEN NewErr(<<"invalid port format: ">> \o cfg.Ports)
    ELSE IF cfg.Timing # <<>> /\ ~AtoiOk(cfg.Timing)
    THEN NewErr(<<"invalid timing template: ">> \o cfg.Timing \o <<" (must be 0-5)">>)
    ELSE NilErr

\* nmap Scanner.ValidateConfig
NmapValidateConfig(cfg) ==
    IF cfg.Ports # <<>> /\ ~portRegexMatch(cfg.Ports)
    THEN NewErr(<<"invalid port format: ">> \o cfg.Ports)
    ELSE IF /\ cfg.Timing # <<>>
            /\ \/ ~AtoiOk(cfg.Timing)
               \/ Atoi(cfg.Timing) < MinTiming
               \/ Atoi(cfg.Timing) > MaxTiming
    THEN NewErr(<<"invalid timing template: ">> \o cfg.Timing \o <<" (must be 0-5)">>)
    ELSE NilErr

\* Mutant: the port specification is optional, as it is for nmap.
MasscanValidateConfigOptionalPorts(cfg) ==
    IF cfg.Ports # <<>> /\ ~portRegexMatch(cfg.Ports)
    THEN NewErr(<<"invalid port format: ">> \o cfg.Ports)
    ELSE IF cfg.Threads > 0 /\ cfg.Threads > MaxThreads
    THEN NewErr(<<"thread count too high: ">> \o Itoa(cfg.Threads) \o <<" (max 100000)">>)
    ELSE NilErr

\* masscan Scanner.ValidateConfig
MasscanValidateConfig(cfg) ==
    IF cfg.Ports = <<>>
    THEN NewErr(<<"ports must be specified for masscan">>)
    ELSE IF ~portRegexMatch(cfg.Ports)
    THEN NewErr(<<"invalid port format: ">> \o cfg.Ports)
    ELSE IF cfg.Threads > 0 /\ cfg.Threads > MaxThreads
    THEN NewErr(<<"thread count too high: ">> \o Itoa(cfg.Threads) \o <<" (max 100000)">>)
    ELSE NilErr

\* Mutant: the masscan adapter validates with the nmap adapter's rules.
ValidateConfigNmapOnly(a, cfg) == NmapValidateConfig(cfg)

\* Scan, the call s.ValidateConfig(config)
ValidateConfig(a, cfg) ==
    IF a = "nmap" THEN NmapValidateConfig(cfg) ELSE MasscanValidateConfig(cfg)

----------------------------------------------------------------------------
\* Argument vectors.

\* The built-in arguments of the nmap adapter between "-oX -" and the extras.
NmapOutputArgs == << <<"-", "o", "X">>, <<"-">> >>
NmapDetectArgs == << <<"-", "s", "V">>, <<"-", "O">> >>
FlagP == <<"-", "p">>
FlagRate == <<"-", "-", "r", "a", "t", "e">>
DefaultRate == <<"1", "0", "0", "0">>
MasscanFormatArgs ==
    << <<"-", "-", "o", "u", "t", "p", "u", "t", "-", "f", "o", "r", "m", "a", "t">>,
       <<"j", "s", "o", "n">> >>

\* The additional arguments, as both adapters append them.
additionalArgs(cfg) == IF cfg.Arguments # <<>> THEN Fields(cfg.Arguments) ELSE <<>>

\* Mutant: the timing template is appended before the ports.
NmapDefaultArgsTimingFirst(cfg) ==
    NmapOutputArgs
    \o (IF cfg.Timing # <<>> THEN << <<"-", "T">> \o cfg.Timing >> ELSE <<>>)
    \o (IF cfg.Ports # <<>> THEN <<FlagP, cfg.Ports>> ELSE <<>>)
    \o NmapDetectArgs

\* nmap Scanner.Scan, the argument vector before the extras
NmapDefaultArgs(cfg) ==
    NmapOutputArgs
    \o (IF cfg.Ports # <<>> THEN <<FlagP, cfg.Ports>> ELSE <<>>)
    \o (IF cfg.Timing # <<>> THEN << <<"-", "T">> \o cfg.Timing >> ELSE <<>>)
    \o NmapDetectArgs

\* Mutant: the extra arguments are appended before the detection flags.
NmapBuildArgsExtrasEarly(t, cfg) ==
    NmapOutputArgs
    \o (IF cfg.Ports # <<>> THEN <<FlagP, cfg.Ports>> ELSE <<>>)
    \o (IF cfg.Timing # <<>> THEN << <<"-", "T">> \o cfg.Timing >> ELSE <<>>)
    \o additionalArgs(cfg) \o NmapDetectArgs \o <<t>>

\* nmap Scanner.Scan, the argument vector
NmapBuildArgs(t, cfg) == NmapDefaultArgs(cfg) \o additionalArgs(cfg) \o <<t>>

\* Mutant: the target is appended after the output format.
MasscanDefaultArgsTargetLast(t, cfg) ==
    <<FlagP, cfg.Ports>>
    \o (IF cfg.Threads > 0 THEN <<FlagRate, Itoa(cfg.Threads)>>
        ELSE <<FlagRate, DefaultRate>>)
    \o MasscanFormatArgs
    \o <<t>>

\* masscan Scanner.Scan, the argument vector before the extras
MasscanDefaultArgs(t, cfg) ==
    <<t>>
    \o <<FlagP, cfg.Ports>>
    \o (IF cfg.Threads > 0 THEN <<FlagRate, Itoa(cfg.Threads)>>
        ELSE <<FlagRate, DefaultRate>>)
    \o MasscanFormatArgs

\* Mutant: the thread count is passed as the rate whatever its value.
MasscanBuildArgsRawRate(t, cfg) ==
    <<t>> \o <<FlagP, cfg.Ports>> \o <<FlagRate, Itoa(cfg.Threads)>>
    \o MasscanFormatArgs \o additionalArgs(cfg)

\* masscan Scanner.Scan, the argument vector
MasscanBuildArgs(t, cfg) == MasscanDefaultArgs(t, cfg) \o additionalArgs(cfg)

BuildArgs(a, t, cfg) ==
    IF a = "nmap" THEN NmapBuildArgs(t, cfg) ELSE MasscanBuildArgs(t, cfg)

----------------------------------------------------------------------------
\* Process output. The stdout of a process is a sequence of chunks: for nmap
\* a piece of markup (the <nmaprun> start tag, its end tag, a whole <host>
\* element, or text that is no well-formed markup), for masscan one line.

\* uuid.New(): the k-th identifier generated within call c.
UUID(c, k) == <<c, k>>

OpenTag == [kind |-> "open"]
CloseTag == [kind |-> "close"]
Junk == [kind |-> "junk"]
BlankLine == [kind |-> "blank"]

HostNode(state, addrs, hostnames, osmatches) ==
    [kind |-> "host", State |-> state, Address |-> addrs,
     Hostnames |-> hostnames, OSMatches |-> osmatches]

\* A decodable masscan line: an ip and its port entries.
Record(ip, ports) == [kind |-> "record", IP |-> ip, Ports |-> ports]

RECURSIVE XmlDecode(_, _, _)
\* xml.Unmarshal into NmapRun: depth 0 looks for the root element, depth 1
\* reads the children of <nmaprun>, deeper levels skip an unknown element.
\* What follows the root's end tag is not read.
XmlDecode(doc, depth, nodes) ==
    IF doc = <<>> THEN [ok |-> FALSE, Hosts |-> <<>>, msg |-> "EOF"]
    ELSE LET tok == Head(doc) IN
      CASE tok.kind = "junk" -> [ok |-> FALSE, Hosts |-> <<>>, msg |-> "XML syntax error"]
        [] tok.kind = "open" -> XmlDecode(Tail(doc), depth + 1, nodes)
        [] tok.kind = "close" ->
             IF depth = 0
             THEN [ok |-> FALSE, Hosts |-> <<>>, msg |-> "XML syntax error"]
             ELSE IF depth = 1 THEN [ok |-> TRUE, Hosts |-> nodes, msg |-> ""]
             ELSE XmlDecode(Tail(doc), depth - 1, nodes)
        [] tok.kind = "host" ->
             IF depth = 0
             THEN [ok |-> FALSE, Hosts |-> <<>>,
                   msg |-> "expected element type <nmaprun> but have <host>"]
             ELSE XmlDecode(Tail(doc), depth,
                            IF depth = 1 THEN Append(nodes, tok) ELSE nodes)

\* The ipv4 addresses of a host node, in document order.
Ipv4Of(addrs) == SelectSeq(addrs, LAMBDA a : a.AddrType = "ipv4")

\* Mutant: the address is taken from the first address node whatever its type.
NmapHostOfAnyAddress(c, k, n) ==
    [ID |-> UUID(c, k),
     Status |-> n.State,
     IPAddress |-> IF Len(n.Address) > 0 THEN n.Address[1].Addr ELSE "",
     Hostname |-> IF Len(n.Hostnames) > 0 THEN n.Hostnames[1] ELSE "",
     OS |-> IF Len(n.OSMatches) > 0 THEN n.OSMatches[1].Name ELSE "",
     OSConfidence |-> IF Len(n.OSMatches) > 0 THEN n.OSMatches[1].Accuracy ELSE 0]

\* parseNmapXML, the body of the loop: the Host of one host node
NmapHostOf(c, k, n) ==
    [ID |-> UUID(c, k),
     Status |-> n.State,
     IPAddress |-> IF Ipv4Of(n.Address) # <<>> THEN Ipv4Of(n.Address)[1].Addr ELSE "",
     Hostname |-> IF Len(n.Hostnames) > 0 THEN n.Hostnames[1] ELSE "",
     OS |-> IF Len(n.OSMatches) > 0 THEN n.OSMatches[1].Name ELSE "",
     OSConfidence |-> IF Len(n.OSMatches) > 0 THEN n.OSMatches[1].Accuracy ELSE 0]

\* parseNmapXML: the hosts, and the error
parseNmapXML(c, xmlData) ==
    LET run == XmlDecode(xmlData, 0, <<>>) IN
    IF ~run.ok
    THEN [hosts |-> <<>>, err |-> NewErr(<<"failed to parse nmap XML: ", run.msg>>)]
    ELSE [hosts |-> [k \in 1..Len(run.Hosts) |-> NmapHostOf(c, k, run.Hosts[k])],
          err |-> NilErr]

RECURSIVE DropBlankHead(_)
DropBlankHead(ls) ==
    IF ls # <<>> /\ Head(ls).kind = "blank" THEN DropBlankHead(Tail(ls)) ELSE ls

RECURSIVE DropBlankTail(_)
DropBlankTail(ls) ==
    IF ls # <<>> /\ ls[Len(ls)].kind = "blank"
    THEN DropBlankTail(SubSeq(ls, 1, Len(ls) - 1)) ELSE ls

\* strings.Split(strings.TrimSpace(string(jsonData)), "\n")
MasscanLines(jsonData) == DropBlankTail(DropBlankHead(jsonData))

RECURSIVE MasscanFoldRecreate(_, _, _, _)
\* Mutant: every record builds a new Host for its ip.
MasscanFoldRecreate(c, lines, hostMap, k) ==
    IF lines = <<>> THEN hostMap
    ELSE LET line == Head(lines) IN
      IF line.kind # "record" THEN MasscanFoldRecreate(c, Tail(lines), hostMap, k)
      ELSE MasscanFoldRecreate(c, Tail(lines),
             [ip \in DOMAIN hostMap \cup {line.IP} |->
                 IF ip = line.IP
                 THEN [ID |-> UUID(c, k + 1), Status |-> "up", IPAddress |-> line.IP,
                       Hostname |-> "", OS |-> "", OSConfidence |-> 0]
                 ELSE hostMap[ip]],
             k + 1 + Len(line.Ports))

RECURSIVE MasscanFoldJunkHost(_, _, _, _)
\* Mutant: a line that fails to decode is folded as a record with no fields.
MasscanFoldJunkHost(c, lines, hostMap, k) ==
    IF lines = <<>> THEN hostMap
    ELSE LET line == IF Head(lines).kind = "junk"
                     THEN [kind |-> "record", IP |-> "", Ports |-> <<>>]
                     ELSE Head(lines) IN
      IF line.kind # "record" THEN MasscanFoldJunkHost(c, Tail(lines), hostMap, k)
      ELSE IF line.IP \in DOMAIN hostMap
      THEN MasscanFoldJunkHost(c, Tail(lines), hostMap, k + Len(line.Ports))
      ELSE MasscanFoldJunkHost(c, Tail(lines),
             [ip \in DOMAIN hostMap \cup {line.IP} |->
                 IF ip = line.IP
                 THEN [ID |-> UUID(c, k + 1), Status |-> "up", IPAddress |-> line.IP,
                       Hostname |-> "", OS |-> "", OSConfidence |-> 0]
                 ELSE hostMap[ip]],
             k + 1 + Len(line.Ports))

RECURSIVE MasscanFoldStopAtJunk(_, _, _, _)
\* Mutant: the loop ends at the first line that fails to decode.
MasscanFoldStopAtJunk(c, lines, hostMap, k) ==
    IF lines = <<>> THEN hostMap
    ELSE LET line == Head(lines) IN
      IF line.kind = "junk" THEN hostMap
      ELSE IF line.kind # "record" THEN MasscanFoldStopAtJunk(c, Tail(lines), hostMap, k)
      ELSE IF line.IP \in DOMAIN hostMap
      THEN MasscanFoldStopAtJunk(c, Tail(lines), hostMap, k + Len(line.Ports))
      ELSE MasscanFoldStopAtJunk(c, Tail(lines),
             [ip \in DOMAIN hostMap \cup {line.IP} |->
                 IF ip = line.IP
                 THEN [ID |-> UUID(c, k + 1), Status |-> "up", IPAddress |-> line.IP,
                       Hostname |-> "", OS |-> "", OSConfidence |-> 0]
                 ELSE hostMap[ip]],
             k + 1 + Len(line.Ports))

RECURSIVE MasscanFold(_, _, _, _)
\* parseMasscanJSON, the loop over the lines: hostMap maps an ip to its Host,
\* k counts the identifiers generated so far (one per Host and one per Port;
\* the Port built for each port entry is dropped at once).
MasscanFold(c, lines, hostMap, k) ==
    IF lines = <<>> THEN hostMap
    ELSE LET line == Head(lines) IN
      IF line.kind # "record" THEN MasscanFold(c, Tail(lines), hostMap, k)
      ELSE IF line.IP \in DOMAIN hostMap
      THEN MasscanFold(c, Tail(lines), hostMap, k + Len(line.Ports))
      ELSE MasscanFold(c, Tail(lines),
             [ip \in DOMAIN hostMap \cup {line.IP} |->
                 IF ip = line.IP
                 THEN [ID |-> UUID(c, k + 1), Status |-> "up", IPAddress |-> line.IP,
                       Hostname |-> "", OS |-> "", OSConfidence |-> 0]
                 ELSE hostMap[ip]],
             k + 1 + Len(line.Ports))

\* The sequences that list each element of set S once.
Orderings(S) ==
    {q \in [1..Cardinality(S) -> S] : \A i, j \in DOMAIN q : q[i] = q[j] => i = j}

\* parseMasscanJSON: the host slices a call can return, since the range over
\* hostMap visits the ips in an order the runtime chooses. It returns no error.
parseMasscanJSON(c, jsonData) ==
    LET hostMap == MasscanFold(c, MasscanLines(jsonData), <<>>, 0) IN
    {[hosts |-> [i \in DOMAIN q |-> hostMap[q[i]]], err |-> NilErr] :
        q \in Orderings(DOMAIN hostMap)}

\* masscan Scanner.GetPortsFromJSON: one Port per port entry of every line
\* that decodes, whatever its ip, each with the hostID given; k identifiers
\* were generated in the call before.
GetPortsFromJSON(c, jsonData, hostID, k) ==
    LET recs == SelectSeq(MasscanLines(jsonData), LAMBDA l : l.kind = "record")
        entries == Flatten([i \in 1..Len(recs) |-> recs[i].Ports])
    IN  [i \in 1..Len(entries) |->
            [ID |-> UUID(c, k + i), HostID |-> hostID, Number |-> entries[i].Port,
             Protocol |-> entries[i].Proto, State |-> entries[i].Status]]

\* The outcomes of the adapter's parser on the captured output.
ParseOutcomes(a, c, output) ==
    IF a = "nmap" THEN {parseNmapXML(c, output)} ELSE parseMasscanJSON(c, output)

----------------------------------------------------------------------------
\* Results.

NilResult == [isnil |-> TRUE, Target |-> <<>>, Scanner |-> "", Status |-> "",
              Hosts |-> <<>>, RawOutput |-> <<>>, Error |-> <<>>]

\* Mutant: the failure of cmd.Output is recorded and not returned.
FailedResultNilErr(a, t, output, err) ==
    [result |-> [isnil |-> FALSE, Target |-> t, Scanner |-> a, Status |-> "failed",
                 Hosts |-> <<>>, RawOutput |-> output, Error |-> ErrorString(err)],
     err |-> NilErr]

\* Mutant: the output captured before the failure is dropped.
FailedResultNoOutput(a, t, output, err) ==
    [result |-> [isnil |-> FALSE, Target |-> t, Scanner |-> a, Status |-> "failed",
                 Hosts |-> <<>>, RawOutput |-> <<>>, Error |-> ErrorString(err)],
     err |-> err]

\* Mutant: the status of a failed result is left at "running".
FailedResultRunning(a, t, output, err) ==
    [result |-> [isnil |-> FALSE, Target |-> t, Scanner |-> a, Status |-> "running",
                 Hosts |-> <<>>, RawOutput |-> output, Error |-> ErrorString(err)],
     err |-> err]

\* Scan, the result and error returned when cmd.Output fails
FailedResult(a, t, output, err) ==
    [result |-> [isnil |-> FALSE, Target |-> t, Scanner |-> a, Status |-> "failed",
                 Hosts |-> <<>>, RawOutput |-> output, Error |-> ErrorString(err)],
     err |-> err]

\* Mutant: a parse failure is returned to the caller as an error.
ParseErrorResultRaised(a, t, output, parseErr) ==
    [result |-> [isnil |-> FALSE, Target |-> t, Scanner |-> a,
                 Status |-> "completed_with_errors", Hosts |-> <<>>,
                 RawOutput |-> output, Error |-> ErrorString(parseErr)],
     err |-> parseErr]

\* Mutant: the parse failure is not recorded in the result.
ParseErrorResultNoMessage(a, t, output, parseErr) ==
    [result |-> [isnil |-> FALSE, Target |-> t, Scanner |-> a,
                 Status |-> "completed_with_errors", Hosts |-> <<>>,
                 RawOutput |-> output, Error |-> <<>>],
     err |-> NilErr]

\* Scan, the result and error returned when the parser fails
ParseErrorResult(a, t, output, parseErr) ==
    [result |-> [isnil |-> FALSE, Target |-> t, Scanner |-> a,
                 Status |-> "completed_with_errors", Hosts |-> <<>>,
                 RawOutput |-> output, Error |-> ErrorString(parseErr)],
     err |-> NilErr]

\* Mutant: the parsed hosts are not put in the result.
CompletedResultNoHosts(a, t, output, hosts) ==
    [result |-> [isnil |-> FALSE, Target |-> t, Scanner |-> a, Status |-> "completed",
                 Hosts |-> <<>>, RawOutput |-> output, Error |-> <<>>],
     err |-> NilErr]

\* Scan, the result and error returned when the parser succeeds
CompletedResult(a, t, output, hosts) ==
    [result |-> [isnil |-> FALSE, Target |-> t, Scanner |-> a, Status |-> "completed",
                 Hosts |-> hosts, RawOutput |-> output, Error |-> <<>>],
     err |-> NilErr]

\* Scan, from the return of cmd.Output on: the (result, error) pairs it can
\* return for the captured output and the error of cmd.Output.
ScanFinish(a, c, t, output, err) ==
    IF ~err.isnil
    THEN {FailedResult(a, t, output, err)}
    ELSE {IF ~p.err.isnil
          THEN ParseErrorResult(a, t, output, p.err)
          ELSE CompletedResult(a, t, output, p.hosts)
          : p \in ParseOutcomes(a, c, output)}

----------------------------------------------------------------------------
\* Inputs.

Adapters == {"nmap", "masscan"}

Targets == {<<"h">>}

Cfg(ports, timing, arguments, threads) ==
    [Ports |-> ports, Timing |-> timing, Arguments |-> arguments, Threads |-> threads]

\* Configurations a call is given: one both adapters accept, one without
\* ports (masscan rejects it), one with a malformed port specification (both
\* reject it), one with timing 6 (nmap rejects it), one with too many threads
\* (masscan rejects it).
ScanConfigs ==
    {Cfg(<<"8", "0">>, <<>>, <<"x", " ", "y">>, 0),
     Cfg(<<>>, <<>>, <<>>, 0),
     Cfg(<<"8", "-">>, <<>>, <<>>, 0),
     Cfg(<<"8", "0">>, <<"6">>, <<>>, 0),
     Cfg(<<"8", "0">>, <<>>, <<>>, MaxThreads + 1)}

NoConfig == [Ports |-> <<>>, Timing |-> <<>>, Arguments |-> <<>>, Threads |-> 0]

\* Host nodes an nmap process reports.
NodeA == HostNode("up", <<[Addr |-> "10.0.0.5", AddrType |-> "ipv4"]>>,
                  <<"router.local">>, <<[Name |-> "Linux", Accuracy |-> 95]>>)

NmapChunks == {OpenTag, CloseTag, Junk, NodeA}

\* Lines a masscan process writes.
PortEntry(n) == [Port |-> n, Proto |-> "tcp", Status |-> "open"]

MasscanChunks == {BlankLine, Junk,
                  Record("10.0.0.1", <<PortEntry(80)>>),
                  Record("10.0.0.2", <<>>)}

Chunks(a) == IF a = "nmap" THEN NmapChunks ELSE MasscanChunks

\* The calls of the single-call specification.
OneCall == {1}

----------------------------------------------------------------------------
\* The scanner registry, the start of the program and the repository.

\* A Scanner: the adapter's package and the path exec.LookPath found.
ScannerOf(a, path) == [kind |-> a, path |-> path]

\* The nil Scanner.
NoScanner == [kind |-> "", path |-> ""]

\* Scanner.GetName
GetName(s) == s.kind

\* The nil *ScannerManager.
NoManager == [isnil |-> TRUE, scanners |-> <<>>]

NewScannerManager == [isnil |-> FALSE, scanners |-> <<>>]

\* Mutant: a name that is registered keeps its scanner.
RegisterScannerKeepFirst(sm, s) ==
    [sm EXCEPT !.scanners =
        [n \in DOMAIN sm.scanners \cup {GetName(s)} |->
            IF n \in DOMAIN sm.scanners THEN sm.scanners[n] ELSE s]]

\* ScannerManager.RegisterScanner: sm.scanners[scanner.GetName()] = scanner
RegisterScanner(sm, s) ==
    [sm EXCEPT !.scanners =
        [n \in DOMAIN sm.scanners \cup {GetName(s)} |->
            IF n = GetName(s) THEN s ELSE sm.scanners[n]]]

\* ScannerManager.GetScanner
GetScanner(sm, name) ==
    IF name \in DOMAIN sm.scanners
    THEN [scanner |-> sm.scanners[name], exists |-> TRUE]
    ELSE [scanner |-> NoScanner, exists |-> FALSE]

\* ScannerManager.ListScanners: the slices it can return, since the range
\* over the map visits the names in an order the runtime chooses.
ListScanners(sm) == Orderings(DOMAIN sm.scanners)

\* A goroutine that executes no method of the registry, and one that has
\* nothing returned to it.
Idle == [op |-> "idle", scanner |-> NoScanner, name |-> ""]
NoReturn == [kind |-> "none", name |-> "", scanner |-> NoScanner, exists |-> FALSE,
             names |-> <<>>]

\* The goroutines of the single-goroutine specifications.
OneGoroutine == {1}

\* An environment where the configuration loads, the database answers and
\* both executables are installed.
DefaultEnv == [cfgOK |-> TRUE, dbOK |-> TRUE,
               paths |-> [a \in Adapters |-> "/usr/bin"]]

\* main before initializeApp.
AppStart == [pc |-> "start", err |-> NilErr, repo |-> FALSE, simulated |-> FALSE]

\* A database with no rows.
EmptyDB == [hosts |-> <<>>, ports |-> <<>>, err |-> NilErr, ids |-> 0]

\* The state outside the calls of Scan when nothing of it is in use.
SideInit ==
    /\ scanMgr = NoManager
    /\ gop = [g \in OneGoroutine |-> Idle]
    /\ gret = [g \in OneGoroutine |-> NoReturn]
    /\ regLog = <<>>
    /\ crashed = FALSE
    /\ env = DefaultEnv
    /\ app = AppStart
    /\ db = EmptyDB

\* exec.LookPath in environment e
LookPath(e, file) ==
    IF e.paths[file] = ""
    THEN [path |-> "",
          err |-> NewErr(<<"exec: ", file, ": executable file not found in $PATH">>)]
    ELSE [path |-> e.paths[file], err |-> NilErr]

\* nmap.NewScanner and masscan.NewScanner
NewScanner(a, e) ==
    IF ~LookPath(e, a).err.isnil
    THEN [scanner |-> NoScanner,
          err |-> Wrap(IF a = "nmap" THEN "nmap not found in PATH: "
                       ELSE "masscan not found in PATH: ", LookPath(e, a).err)]
    ELSE [scanner |-> ScannerOf(a, LookPath(e, a).path), err |-> NilErr]

\* initializeApp, one "if scanner, err := NewScanner(); err == nil" statement
RegisterIfAvailable(sm, a, e) ==
    IF NewScanner(a, e).err.isnil THEN RegisterScanner(sm, NewScanner(a, e).scanner)
    ELSE sm

\* Mutant: initializeApp returns the error of the first adapter that cannot
\* be constructed.
initializeAppStopAtFailure(e) ==
    IF ~e.cfgOK
    THEN [app |-> [AppStart EXCEPT !.pc = "failed",
                                   !.err = NewErr(<<"failed to load config: ", "read error">>)],
          scanMgr |-> NoManager]
    ELSE IF ~NewScanner("nmap", e).err.isnil
    THEN [app |-> [AppStart EXCEPT !.pc = "failed", !.err = NewScanner("nmap", e).err,
                                   !.repo = e.dbOK],
          scanMgr |-> NewScannerManager]
    ELSE [app |-> [AppStart EXCEPT !.pc = "ready", !.repo = e.dbOK],
          scanMgr |-> RegisterIfAvailable(
                          RegisterIfAvailable(NewScannerManager, "nmap", e), "masscan", e)]

\* initializeApp: the program and the registry when it returns
initializeApp(e) ==
    IF ~e.cfgOK
    THEN [app |-> [AppStart EXCEPT !.pc = "failed",
                                   !.err = NewErr(<<"failed to load config: ", "read error">>)],
          scanMgr |-> NoManager]
    ELSE [app |-> [AppStart EXCEPT !.pc = "ready", !.repo = e.dbOK],
          scanMgr |-> RegisterIfAvailable(
                          RegisterIfAvailable(NewScannerManager, "nmap", e), "masscan", e)]

\* The CHECK constraints of the scan_results, hosts and ports tables.
ScanResultStatusCheck == {"running", "completed", "failed"}
HostStatusCheck == {"up", "down", "filtered"}
MinConfidence == 0
MaxConfidence == 100
MinPortNumber == 1
MaxPortNumber == 65535
PortProtocolCheck == {"tcp", "udp"}
PortStateCheck == {"open", "closed", "filtered"}

\* The identifier the repository generates for its n-th insert.
RepoUUID(n) == UUID(0, n)

\* The hosts table takes the row: ip_address is INET NOT NULL, status and
\* os_confidence are checked.
HostRowAccepted(row) ==
    /\ row.ip_address # ""
    /\ row.status \in HostStatusCheck
    /\ row.os_confidence >= MinConfidence /\ row.os_confidence <= MaxConfidence

\* The ports table takes the row: host_id references hosts(id), number,
\* protocol and state are checked.
PortRowAccepted(d, row) ==
    /\ \E i \in 1..Len(d.hosts) : d.hosts[i].id = row.host_id
    /\ row.number >= MinPortNumber /\ row.number <= MaxPortNumber
    /\ row.protocol \in PortProtocolCheck
    /\ row.state \in PortStateCheck

\* The error of db.Exec when the insert fails.
ExecErr == NewErr(<<"pq: insert failed">>)

\* Repository.CreateHost: the host when it returns (its ID is overwritten)
\* and the database; up is whether the database answers and holds the scan
\* row the host refers to.
CreateHost(d, host, up) ==
    LET h == [host EXCEPT !.ID = RepoUUID(d.ids + 1)]
        row == [id |-> h.ID, ip_address |-> h.IPAddress, hostname |-> h.Hostname,
                status |-> h.Status, os |-> h.OS, os_confidence |-> h.OSConfidence]
    IN  [host |-> h,
         db |-> IF up /\ HostRowAccepted(row)
                THEN [d EXCEPT !.ids = @ + 1, !.hosts = Append(@, row), !.err = NilErr]
                ELSE [d EXCEPT !.ids = @ + 1, !.err = ExecErr]]

\* Repository.CreatePort: the port when it returns (its ID is overwritten)
\* and the database.
CreatePort(d, port, up) ==
    LET q == [port EXCEPT !.ID = RepoUUID(d.ids + 1)]
        row == [id |-> q.ID, host_id |-> q.HostID, number |-> q.Number,
                protocol |-> q.Protocol, state |-> q.State]
    IN  [port |-> q,
         db |-> IF up /\ PortRowAccepted(d, row)
                THEN [d EXCEPT !.ids = @ + 1, !.ports = Append(@, row), !.err = NilErr]
                ELSE [d EXCEPT !.ids = @ + 1, !.err = ExecErr]]

----------------------------------------------------------------------------
\* The state machine. Each call runs Scan once; cmd.Output is Start, then
\* Wait, which reaps the process, takes the watcher's verdict and waits for
\* the copying goroutine to reach the end of the pipe.

\* The calls before Scan is called.
CallInit(calls) ==
    /\ pc = [c \in calls |-> "idle"]
    /\ adapter = [c \in calls |-> "nmap"]
    /\ target = [c \in calls |-> <<>>]
    /\ config = [c \in calls |-> NoConfig]
    /\ args = [c \in calls |-> <<>>]
    /\ ctx = [c \in calls |-> "active"]
    /\ ctxDoneAt = [c \in calls |-> "never"]
    /\ proc = [c \in calls |-> "none"]
    /\ status = [c \in calls |-> "none"]
    /\ spawned = [c \in calls |-> 0]
    /\ emitted = [c \in calls |-> <<>>]
    /\ pipe = [c \in calls |-> <<>>]
    /\ stdoutBuf = [c \in calls |-> <<>>]
    /\ copier = [c \in calls |-> "none"]
    /\ watcher = [c \in calls |-> "none"]
    /\ watchErr = [c \in calls |-> NilErr]
    /\ waitErr = [c \in calls |-> NilErr]
    /\ result = [c \in calls |-> NilResult]
    /\ retErr = [c \in calls |-> NilErr]
    /\ portsOut = [c \in calls |-> <<>>]

InitCalls(calls) == CallInit(calls) /\ SideInit

Init == InitCalls(OneCall)

Calls == DOMAIN pc

\* ctx.Err()
CtxErr(c) == NewErr(<<IF ctx[c] = "deadline" THEN "context deadline exceeded"
                      ELSE "context canceled">>)

\* The error of cmd.Start when the executable cannot be run.
StartErr == NewErr(<<"fork/exec: no such file or directory">>)

\* The error of Process.Wait for an exit status.
ExitErr(st) ==
    CASE st = "exit 0" -> NilErr
      [] st = "exit 1" -> NewErr(<<"exit status 1">>)
      [] st = "killed" -> NewErr(<<"signal: killed">>)

\* The goroutines and the process of a call are left as they are.
ExecUnchanged == UNCHANGED <<proc, status, spawned, emitted, pipe, stdoutBuf,
                             copier, watcher, watchErr, waitErr>>

\* Scan up to and including cmd.Start: validation, the argument vector, and
\* the start of the process. startOK is whether the executable can be run.
ScanBegin(c, a, t, cfg, startOK) ==
    /\ pc[c] = "idle"
    /\ adapter' = [adapter EXCEPT ![c] = a]
    /\ target' = [target EXCEPT ![c] = t]
    /\ config' = [config EXCEPT ![c] = cfg]
    /\ UNCHANGED <<ctx, ctxDoneAt>>
    /\ IF ~ValidateConfig(a, cfg).isnil
       THEN /\ pc' = [pc EXCEPT ![c] = "returned"]
            /\ result' = [result EXCEPT ![c] = NilResult]
            /\ retErr' = [retErr EXCEPT ![c] =
                             Wrap("invalid config: ", ValidateConfig(a, cfg))]
            /\ UNCHANGED args
            /\ ExecUnchanged
       ELSE /\ args' = [args EXCEPT ![c] = BuildArgs(a, t, cfg)]
            /\ IF ctx[c] # "active" \/ ~startOK
               THEN \E o \in ScanFinish(a, c, t, <<>>,
                                        IF ctx[c] # "active" THEN CtxErr(c) ELSE StartErr) :
                       /\ pc' = [pc EXCEPT ![c] = "returned"]
                       /\ result' = [result EXCEPT ![c] = o.result]
                       /\ retErr' = [retErr EXCEPT ![c] = o.err]
                       /\ ExecUnchanged
               ELSE /\ pc' = [pc EXCEPT ![c] = "wait"]
                    /\ proc' = [proc EXCEPT ![c] = "running"]
                    /\ spawned' = [spawned EXCEPT ![c] = @ + 1]
                    /\ copier' = [copier EXCEPT ![c] = "copying"]
                    /\ watcher' = [watcher EXCEPT ![c] = "select"]
                    /\ UNCHANGED <<status, emitted, pipe, stdoutBuf, watchErr,
                                   waitErr, result, retErr>>
    /\ UNCHANGED sideVars

\* The caller cancels the context, or its deadline passes.
CtxCancel(c, why) ==
    /\ pc[c] # "returned"
    /\ ctx[c] = "active"
    /\ ctx' = [ctx EXCEPT ![c] = why]
    /\ ctxDoneAt' = [ctxDoneAt EXCEPT ![c] = proc[c]]
    /\ UNCHANGED <<pc, adapter, target, config, args, result, retErr>>
    /\ ExecUnchanged
    /\ UNCHANGED sideVars

\* The process writes a chunk to its stdout.
ProcWrite(c, ch) ==
    /\ proc[c] = "running"
    /\ Len(emitted[c]) < MaxOut
    /\ emitted' = [emitted EXCEPT ![c] = Append(@, ch)]
    /\ pipe' = [pipe EXCEPT ![c] = Append(@, ch)]
    /\ UNCHANGED <<pc, adapter, target, config, args, ctx, ctxDoneAt, proc, status, spawned,
                   stdoutBuf, copier, watcher, watchErr, waitErr, result, retErr>>
    /\ UNCHANGED sideVars

\* The process exits by itself, with status 0 or not.
ProcExit(c, st) ==
    /\ proc[c] = "running"
    /\ proc' = [proc EXCEPT ![c] = "exited"]
    /\ status' = [status EXCEPT ![c] = st]
    /\ UNCHANGED <<pc, adapter, target, config, args, ctx, ctxDoneAt, spawned, emitted, pipe,
                   stdoutBuf, copier, watcher, watchErr, waitErr, result, retErr>>
    /\ UNCHANGED sideVars

\* Mutant: on the end of the context the watcher reports it and kills nothing.
WatchCancelAbandon(c) ==
    /\ watcher[c] = "select"
    /\ ctx[c] # "active"
    /\ watcher' = [watcher EXCEPT ![c] = "sending"]
    /\ watchErr' = [watchErr EXCEPT ![c] = CtxErr(c)]
    /\ UNCHANGED <<pc, adapter, target, config, args, ctx, ctxDoneAt, proc, status,
                   spawned, emitted, pipe, stdoutBuf, copier, waitErr, result, retErr>>
    /\ UNCHANGED sideVars

\* The watcher finds the context done and calls Process.Kill: a running
\* process dies of the signal; a process that has exited and is not reaped
\* takes the signal without effect; a reaped one gives os.ErrProcessDone,
\* which the watcher reports as no error.
WatchCancel(c) ==
    /\ watcher[c] = "select"
    /\ ctx[c] # "active"
    /\ watcher' = [watcher EXCEPT ![c] = "sending"]
    /\ watchErr' = [watchErr EXCEPT ![c] = IF proc[c] = "reaped" THEN NilErr ELSE CtxErr(c)]
    /\ proc' = [proc EXCEPT ![c] = IF @ = "running" THEN "exited" ELSE @]
    /\ status' = [status EXCEPT ![c] = IF proc[c] = "running" THEN "killed" ELSE @]
    /\ UNCHANGED <<pc, adapter, target, config, args, ctx, ctxDoneAt, spawned, emitted, pipe,
                   stdoutBuf, copier, waitErr, result, retErr>>
    /\ UNCHANGED sideVars

\* Mutant: a process that exits with a failure is started once more.
WaitReapRestart(c) ==
    /\ pc[c] = "wait"
    /\ proc[c] = "exited"
    /\ IF status[c] # "exit 0" /\ spawned[c] < 2
       THEN /\ proc' = [proc EXCEPT ![c] = "running"]
            /\ spawned' = [spawned EXCEPT ![c] = @ + 1]
            /\ UNCHANGED <<pc, waitErr>>
       ELSE /\ proc' = [proc EXCEPT ![c] = "reaped"]
            /\ waitErr' = [waitErr EXCEPT ![c] = ExitErr(status[c])]
            /\ pc' = [pc EXCEPT ![c] = "watch"]
            /\ UNCHANGED spawned
    /\ UNCHANGED <<adapter, target, config, args, ctx, ctxDoneAt, status, emitted, pipe,
                   stdoutBuf, copier, watcher, watchErr, result, retErr>>
    /\ UNCHANGED sideVars

\* Process.Wait returns: the process is reaped.
WaitReap(c) ==
    /\ pc[c] = "wait"
    /\ proc[c] = "exited"
    /\ proc' = [proc EXCEPT ![c] = "reaped"]
    /\ waitErr' = [waitErr EXCEPT ![c] = ExitErr(status[c])]
    /\ pc' = [pc EXCEPT ![c] = "watch"]
    /\ UNCHANGED <<adapter, target, config, args, ctx, ctxDoneAt, status, spawned, emitted, pipe,
                   stdoutBuf, copier, watcher, watchErr, result, retErr>>
    /\ UNCHANGED sideVars

\* Wait receives the watcher's verdict: an error of Process.Wait is
\* preferred to it.
RecvWatch(c) ==
    /\ pc[c] = "watch"
    /\ watcher[c] \in {"select", "sending"}
    /\ waitErr' = [waitErr EXCEPT ![c] =
                      IF @.isnil /\ watcher[c] = "sending" THEN watchErr[c] ELSE @]
    /\ watcher' = [watcher EXCEPT ![c] = "done"]
    /\ pc' = [pc EXCEPT ![c] = "copy"]
    /\ UNCHANGED <<adapter, target, config, args, ctx, ctxDoneAt, proc, status, spawned, emitted,
                   pipe, stdoutBuf, copier, watchErr, result, retErr>>
    /\ UNCHANGED sideVars

\* The copying goroutine moves a chunk from the pipe to the buffer.
CopyRead(c) ==
    /\ copier[c] = "copying"
    /\ pipe[c] # <<>>
    /\ stdoutBuf' = [stdoutBuf EXCEPT ![c] = Append(@, Head(pipe[c]))]
    /\ pipe' = [pipe EXCEPT ![c] = Tail(@)]
    /\ UNCHANGED <<pc, adapter, target, config, args, ctx, ctxDoneAt, proc, status, spawned,
                   emitted, copier, watcher, watchErr, waitErr, result, retErr>>
    /\ UNCHANGED sideVars

\* The copying goroutine reads end of file: the pipe is empty and the
\* process, which held its write end, is gone.
CopyEOF(c) ==
    /\ copier[c] = "copying"
    /\ pipe[c] = <<>>
    /\ proc[c] \in {"exited", "reaped"}
    /\ copier' = [copier EXCEPT ![c] = "done"]
    /\ UNCHANGED <<pc, adapter, target, config, args, ctx, ctxDoneAt, proc, status, spawned,
                   emitted, pipe, stdoutBuf, watcher, watchErr, waitErr, result, retErr>>
    /\ UNCHANGED sideVars

\* Mutant: Wait does not wait for the copying goroutine.
OutputReturnsEarly(c) == pc[c] = "copy"

\* Whether cmd.Output can return: Wait has the verdict and the copy is over.
OutputReturns(c) == pc[c] = "copy" /\ copier[c] = "done"

\* Mutant: the adapters keep the captured output in one buffer, which the
\* call started last owns.
ScanReturnSharedBuffer(c) ==
    /\ OutputReturns(c)
    /\ \E o \in ScanFinish(adapter[c], c, target[c],
                           stdoutBuf[CHOOSE d \in DOMAIN pc : \A e \in DOMAIN pc : e <= d],
                           waitErr[c]) :
          /\ result' = [result EXCEPT ![c] = o.result]
          /\ retErr' = [retErr EXCEPT ![c] = o.err]
    /\ pc' = [pc EXCEPT ![c] = "returned"]
    /\ UNCHANGED <<adapter, target, config, args, ctx, ctxDoneAt>>
    /\ ExecUnchanged
    /\ UNCHANGED sideVars

\* cmd.Output returns and Scan builds what it returns.
ScanReturn(c) ==
    /\ OutputReturns(c)
    /\ \E o \in ScanFinish(adapter[c], c, target[c], stdoutBuf[c], waitErr[c]) :
          /\ result' = [result EXCEPT ![c] = o.result]
          /\ retErr' = [retErr EXCEPT ![c] = o.err]
    /\ pc' = [pc EXCEPT ![c] = "returned"]
    /\ UNCHANGED <<adapter, target, config, args, ctx, ctxDoneAt>>
    /\ ExecUnchanged
    /\ UNCHANGED sideVars

Begin ==
    \E c \in Calls, a \in Adapters, t \in Targets, cfg \in ScanConfigs,
       startOK \in BOOLEAN :
        ScanBegin(c, a, t, cfg, startOK)

Cancel == \E c \in Calls, why \in {"canceled", "deadline"} : CtxCancel(c, why)

Write == \E c \in Calls : \E ch \in Chunks(adapter[c]) : ProcWrite(c, ch)

Exit == \E c \in Calls, st \in {"exit 0", "exit 1"} : ProcExit(c, st)

Kill == \E c \in Calls : WatchCancel(c)

Reap == \E c \in Calls : WaitReap(c)

Verdict == \E c \in Calls : RecvWatch(c)

Copy == \E c \in Calls : CopyRead(c)

CopyEnd == \E c \in Calls : CopyEOF(c)

Return == \E c \in Calls : ScanReturn(c)

Next ==
    \/ Begin
    \/ Cancel
    \/ Write
    \/ Exit
    \/ Kill
    \/ Reap
    \/ Verdict
    \/ Copy
    \/ CopyEnd
    \/ Return

Spec == Init /\ [][Next]_vars

\* The configuration of the calls whose progress is checked: both adapters
\* accept it.
LiveConfig == Cfg(<<"8", "0">>, <<>>, <<"x", " ", "y">>, 0)

LiveBegin ==
    \E c \in Calls, a \in Adapters, t \in Targets, startOK \in BOOLEAN :
        ScanBegin(c, a, t, LiveConfig, startOK)

LiveNext ==
    \/ LiveBegin
    \/ Cancel
    \/ Write
    \/ Exit
    \/ Kill
    \/ Reap
    \/ Verdict
    \/ Copy
    \/ CopyEnd
    \/ Return

\* The goroutines of a call (Scan's own, the watcher, the copier) are
\* scheduled fairly by the Go runtime. Nothing makes the caller begin or
\* cancel, nor the process write or exit by itself.
FairSpec ==
    /\ Init
    /\ [][LiveNext]_vars
    /\ \A c \in OneCall :
          /\ WF_vars(WatchCancel(c))
          /\ WF_vars(WaitReap(c))
          /\ WF_vars(RecvWatch(c))
          /\ WF_vars(CopyRead(c))
          /\ WF_vars(CopyEOF(c))
          /\ WF_vars(ScanReturn(c))

\* Extra-argument strings: two letters, a blank and a tab.
ArgChars == {"x", "y", " ", "\t"}

\* Configurations for the argument vectors: every extra-argument string up
\* to MaxArgLen characters, with and without ports, timing and threads.
ArgConfigs ==
    [Ports : {<<>>, <<"8", "0">>}, Timing : {<<>>, <<"3">>},
     Arguments : SeqsUpTo(ArgChars, MaxArgLen), Threads : {0, 5}]

ArgBegin ==
    \E c \in Calls, a \in Adapters, t \in Targets, cfg \in ArgConfigs :
        ScanBegin(c, a, t, cfg, TRUE)

\* Scan up to the start of the process, over the argument configurations.
ArgSpec == Init /\ [][ArgBegin]_vars

----------------------------------------------------------------------------
\* What the claims speak of.

Returned(c) == pc[c] = "returned"

\* The adapter of call c rejects the configuration the call was given.
Rejects(c) ==
    \/ adapter[c] = "nmap" /\ ~NmapValidateConfig(config[c]).isnil
    \/ adapter[c] = "masscan" /\ ~MasscanValidateConfig(config[c]).isnil

\* Call c has returned after its process failed to execute: it could not be
\* started (no executable, or the context was done already), it exited with
\* a non-zero status, it was killed, or the context's end was reported.
ExecFailed(c) ==
    /\ Returned(c) /\ ~Rejects(c)
    /\ \/ spawned[c] = 0
       \/ status[c] \in {"exit 1", "killed"}
       \/ ~watchErr[c].isnil

\* Call c has returned after its process ran and cmd.Output gave no error.
ExecSucceeded(c) == Returned(c) /\ ~Rejects(c) /\ ~ExecFailed(c)

\* The markup the nmap process wrote has no readable <nmaprun> root.
NmapUnparseable(c) == ~XmlDecode(emitted[c], 0, <<>>).ok

\* No line the masscan process wrote decodes as a record.
MasscanUnparseable(c) ==
    /\ emitted[c] # <<>>
    /\ \A i \in 1..Len(emitted[c]) : emitted[c][i].kind = "junk"

\* C1: for both adapters, when ValidateConfig rejects the configuration, Scan
\* returns an error and no result, and no process is started at any point of
\* the call (once the call has begun it has returned, and nothing was spawned).
C1_RejectedConfigStartsNothing ==
    \A c \in Calls :
        (pc[c] # "idle" /\ Rejects(c)) =>
            /\ Returned(c)
            /\ result[c].isnil
            /\ ~retErr[c].isnil
            /\ spawned[c] = 0
            /\ proc[c] = "none"

C1_Witness ==
    \E c \in Calls :
        /\ Returned(c) /\ adapter[c] = "masscan" /\ config[c].Ports = <<>>
        /\ result[c].isnil /\ ~retErr[c].isnil

\* C2: for both adapters, when the process fails to execute, Scan returns a
\* result with status "failed", no hosts and a non-empty error field, and a
\* non-nil error whose message is the result's error field.
C2_ExecFailureIsFailed ==
    \A c \in Calls :
        ExecFailed(c) =>
            /\ ~result[c].isnil
            /\ result[c].Status = "failed"
            /\ result[c].Hosts = <<>>
            /\ result[c].Error # <<>>
            /\ ~retErr[c].isnil
            /\ ErrorString(retErr[c]) = result[c].Error

C2_Witness ==
    \E c \in Calls :
        /\ ExecFailed(c) /\ status[c] = "exit 1" /\ emitted[c] # <<>>
        /\ result[c].Status = "failed"

\* C3 as claimed: for both adapters, when the process exits successfully but
\* its output is unparseable, Scan returns status "completed_with_errors", no
\* hosts, a non-empty error field, and a nil error.
C3_Claimed ==
    \A c \in Calls :
        (/\ ExecSucceeded(c)
         /\ IF adapter[c] = "nmap" THEN NmapUnparseable(c) ELSE MasscanUnparseable(c)) =>
            /\ result[c].Status = "completed_with_errors"
            /\ result[c].Hosts = <<>>
            /\ result[c].Error # <<>>
            /\ retErr[c].isnil

\* C3 as amended: the nmap adapter returns status "completed_with_errors", no
\* hosts, a non-empty error field and a nil error when the process exits
\* successfully and its output is unparseable; the masscan adapter's parser
\* never fails, so after a successful exit it returns status "completed", an
\* empty error field and a nil error whatever the output is.
C3_ParseFailureIsSoft ==
    \A c \in Calls :
        ExecSucceeded(c) =>
            /\ (adapter[c] = "nmap" /\ NmapUnparseable(c)) =>
                  /\ result[c].Status = "completed_with_errors"
                  /\ result[c].Hosts = <<>>
                  /\ result[c].Error # <<>>
                  /\ retErr[c].isnil
            /\ adapter[c] = "masscan" =>
                  /\ result[c].Status = "completed"
                  /\ result[c].Error = <<>>
                  /\ retErr[c].isnil

C3_Witness ==
    \E c \in Calls :
        /\ ExecSucceeded(c) /\ adapter[c] = "nmap"
        /\ emitted[c] = <<OpenTag, Junk>>
        /\ result[c].Status = "completed_with_errors"

\* The host slices the adapter's parser produces for everything the process
\* of call c wrote.
ParserHosts(c) == {p.hosts : p \in ParseOutcomes(adapter[c], c, emitted[c])}

\* C4: for both adapters, when the process exits successfully and parsing
\* succeeds, Scan returns status "completed", exactly the hosts the parser
\* produced, an empty error field and a nil error.
C4_ParsedIsCompleted ==
    \A c \in Calls :
        (/\ ExecSucceeded(c)
         /\ adapter[c] = "nmap" => ~NmapUnparseable(c)) =>
            /\ ~result[c].isnil
            /\ result[c].Status = "completed"
            /\ result[c].Hosts \in ParserHosts(c)
            /\ result[c].Error = <<>>
            /\ retErr[c].isnil

C4_Witness ==
    \E c \in Calls :
        /\ ExecSucceeded(c) /\ adapter[c] = "nmap"
        /\ emitted[c] = <<OpenTag, NodeA, CloseTag>>
        /\ Len(result[c].Hosts) = 1
        /\ result[c].Hosts[1].IPAddress = "10.0.0.5"

\* C5: every result a Scan call returns satisfies: status
\* "completed_with_errors" implies a non-empty error field, and status
\* "failed" implies no hosts.
C5_ResultInvariant ==
    \A c \in Calls :
        (Returned(c) /\ ~result[c].isnil) =>
            /\ result[c].Status = "completed_with_errors" => result[c].Error # <<>>
            /\ result[c].Status = "failed" => result[c].Hosts = <<>>

C5_Witness ==
    \E c \in Calls :
        /\ Returned(c) /\ ~result[c].isnil
        /\ result[c].Status = "completed_with_errors"
        /\ emitted[c] = <<NodeA>>

\* C6: in every outcome in which the process was started (failed,
\* completed_with_errors, completed), the raw output of the result is what
\* the process wrote to its standard output, unchanged.
C6_RawOutputVerbatim ==
    \A c \in Calls :
        (Returned(c) /\ spawned[c] > 0) =>
            /\ ~result[c].isnil
            /\ result[c].RawOutput = emitted[c]

C6_Witness ==
    \E c \in Calls :
        /\ Returned(c) /\ spawned[c] > 0
        /\ result[c].Status = "failed"
        /\ Len(emitted[c]) = 2
        /\ result[c].RawOutput = emitted[c]

\* C8: on every exit path of a Scan that started a process, the process has
\* terminated and been reaped, and its standard output has been read to the
\* end, before Scan returns.
C8_ProcessDrainedAtReturn ==
    \A c \in Calls :
        (Returned(c) /\ spawned[c] > 0) =>
            /\ proc[c] = "reaped"
            /\ pipe[c] = <<>>
            /\ copier[c] = "done"
            /\ watcher[c] = "done"
            /\ stdoutBuf[c] = emitted[c]

C8_Witness ==
    \E c \in Calls :
        /\ Returned(c) /\ spawned[c] > 0
        /\ status[c] = "killed"
        /\ Len(emitted[c]) = 1

\* C7 as claimed: cancelling (or timing out) the context while the process
\* is running ends with Scan returning status "failed" and a non-nil error.
C7_Claimed ==
    \A c \in Calls :
        (Returned(c) /\ ctxDoneAt[c] = "running") =>
            /\ result[c].Status = "failed"
            /\ ~retErr[c].isnil

\* C7 as amended: once the context ends while the process is running, Scan
\* eventually returns, and when it has, the process is gone (reaped), never
\* left running; the result is "failed" with a non-nil error, unless the
\* process exited with status 0 by itself and Wait took the watcher's verdict
\* before the watcher acted on the context, in which case Scan returns as if
\* the context had not ended.
C7_CancelTerminatesProcess ==
    /\ \A c \in OneCall : (ctxDoneAt[c] = "running") ~> Returned(c)
    /\ [](\A c \in OneCall :
            (Returned(c) /\ ctxDoneAt[c] = "running") =>
                /\ proc[c] = "reaped"
                /\ \/ result[c].Status = "failed" /\ ~retErr[c].isnil
                   \/ status[c] = "exit 0" /\ watchErr[c].isnil)

C7_Witness ==
    \E c \in Calls :
        /\ Returned(c) /\ ctxDoneAt[c] = "running"
        /\ status[c] = "killed"
        /\ result[c].Status = "failed"
        /\ ~retErr[c].isnil

FinalStatuses == {"completed", "completed_with_errors", "failed"}

\* C9 as claimed: a result exists from the start of the scan with status
\* "running", and a returned result has a final status.
C9_Claimed ==
    \A c \in Calls :
        /\ pc[c] \in {"wait", "watch", "copy"} =>
              ~result[c].isnil /\ result[c].Status = "running"
        /\ (Returned(c) /\ ~result[c].isnil) => result[c].Status \in FinalStatuses

\* C9 as amended: a call has no result until Scan returns; Scan creates the
\* result once, on return, already in its final status (completed,
\* completed_with_errors or failed), so no result ever has status "running";
\* after the return the result never changes.
C9_ResultFinalOnce ==
    /\ [](\A c \in OneCall :
            /\ ~Returned(c) => result[c].isnil
            /\ (Returned(c) /\ ~result[c].isnil) => result[c].Status \in FinalStatuses
            /\ (Returned(c) /\ ~Rejects(c)) => ~result[c].isnil)
    /\ [][\A c \in OneCall :
            /\ Returned(c) => result'[c] = result[c]
            /\ result'[c] # result[c] => (result[c].isnil /\ Returned(c)')]_vars

C9_Witness ==
    \E c \in Calls :
        /\ Returned(c) /\ spawned[c] = 1
        /\ ~result[c].isnil /\ result[c].Status = "completed"

\* The built-in arguments the adapter of call c passes.
BuiltinTokens(c) ==
    IF adapter[c] = "nmap"
    THEN {<<"-", "o", "X">>, <<"-">>, <<"-", "s", "V">>, <<"-", "O">>}
         \cup (IF config[c].Ports # <<>> THEN {<<"-", "p">>, config[c].Ports} ELSE {})
         \cup (IF config[c].Timing # <<>> THEN {<<"-", "T">> \o config[c].Timing} ELSE {})
    ELSE {target[c], <<"-", "p">>, config[c].Ports, <<"-", "-", "r", "a", "t", "e">>,
          <<"-", "-", "o", "u", "t", "p", "u", "t", "-", "f", "o", "r", "m", "a", "t">>,
          <<"j", "s", "o", "n">>}

\* The string without its white space.
NoSpace(str) == SelectSeq(str, LAMBDA ch : ch \notin {" ", "\t"})

\* Where the extra arguments of call c end in its argument vector: before
\* the target for nmap, at the end for masscan.
ExtrasEnd(c) == IF adapter[c] = "nmap" THEN Len(args[c]) - 1 ELSE Len(args[c])

\* C10: for both adapters, in the argument vector Scan builds the tokens of
\* the user's extra arguments stand after all built-in arguments, in the
\* order the user gave them.
C10_ExtrasAfterDefaults ==
    \A c \in Calls :
        (pc[c] # "idle" /\ ~Rejects(c)) =>
            \E first \in 1..(ExtrasEnd(c) + 1) :
                LET extras == SubSeq(args[c], first, ExtrasEnd(c)) IN
                /\ Flatten(extras) = NoSpace(config[c].Arguments)
                /\ Len(extras) = Len(Fields(config[c].Arguments))
                /\ \A i \in 1..Len(extras) :
                      /\ extras[i] # <<>>
                      /\ NoSpace(extras[i]) = extras[i]
                /\ \A b \in BuiltinTokens(c) : \E i \in 1..(first - 1) : args[c][i] = b
                /\ \A i \in 1..(first - 1) :
                      \/ args[c][i] \in BuiltinTokens(c)
                      \/ /\ adapter[c] = "masscan" /\ i > 1
                         /\ args[c][i - 1] = <<"-", "-", "r", "a", "t", "e">>
                /\ adapter[c] = "nmap" => args[c][Len(args[c])] = target[c]

C10_Witness ==
    \E c \in Calls :
        /\ pc[c] # "idle" /\ ~Rejects(c) /\ adapter[c] = "nmap"
        /\ config[c].Arguments = <<"y", " ", "x">>
        /\ config[c].Ports # <<>>
        /\ SubSeq(args[c], Len(args[c]) - 2, Len(args[c]) - 1) = << <<"y">>, <<"x">> >>

----------------------------------------------------------------------------
\* Validation and argument vectors over many configurations.

\* Longest port specification and longest timing template drawn.
MaxPortLen == 4
MaxTimingLen == 2

\* Characters of the port specifications: two digits, the two separators of
\* the grammar and a letter.
PortChars == {"8", "0", "-", ",", "a"}

\* Characters of the timing templates: both signs, digits inside and outside
\* 0..5, and a letter.
TimingChars == {"+", "-", "0", "5", "6", "x"}

\* Thread counts around both ends of the accepted range.
ThreadHints == {-1, 0, 1, 5, MaxThreads, MaxThreads + 1}

\* Configurations for validation: every port string with few other fields,
\* every timing string and thread count with few port strings, and the
\* configurations of the extra arguments.
ValConfigs ==
    [Ports : SeqsUpTo(PortChars, MaxPortLen), Timing : {<<>>, <<"3">>},
     Arguments : {<<>>}, Threads : {0}]
    \cup [Ports : {<<>>, <<"8", "0">>}, Timing : SeqsUpTo(TimingChars, MaxTimingLen),
          Arguments : {<<>>, <<"x", " ", "y">>}, Threads : ThreadHints]
    \cup ArgConfigs

ValBegin ==
    \E c \in Calls, a \in Adapters, t \in Targets, cfg \in ValConfigs :
        ScanBegin(c, a, t, cfg, TRUE)

\* Scan up to the start of the process, over the validation configurations.
ValSpec == Init /\ [][ValBegin]_vars

\* Call c has started its process.
Started(c) == spawned[c] > 0

\* Call c was refused for the named reason.
RefusedFor(c, why) ==
    /\ Returned(c) /\ result[c] = NilResult /\ ~retErr[c].isnil
    /\ Len(ErrorString(retErr[c])) >= 2
    /\ ErrorString(retErr[c])[1] = "invalid config: "
    /\ ErrorString(retErr[c])[2] = why

PortError(c) == RefusedFor(c, "invalid port format: ")

TimingError(c) == RefusedFor(c, "invalid timing template: ")

C12_MasscanArgVector ==
    \A c \in Calls :
        (adapter[c] = "masscan" /\ Started(c)) =>
            args[c] =
                << target[c], <<"-", "p">>, config[c].Ports,
                   <<"-", "-", "r", "a", "t", "e">>,
                   IF config[c].Threads > 0 THEN Itoa(config[c].Threads)
                   ELSE <<"1", "0", "0", "0">>,
                   <<"-", "-", "o", "u", "t", "p", "u", "t", "-",
                     "f", "o", "r", "m", "a", "t">>,
                   <<"j", "s", "o", "n">> >>
                \o Fields(config[c].Arguments)

\* A masscan call with a thread count of 5 and two extra tokens has started.
C12_Witness ==
    \E c \in Calls :
        /\ adapter[c] = "masscan" /\ Started(c)
        /\ config[c].Threads = 5 /\ args[c][5] = <<"5">>
        /\ Fields(config[c].Arguments) = << <<"x">>, <<"y">> >>
        /\ Len(args[c]) = 9

\* The grammar of port specifications, by splitting: the pieces of s between
\* the occurrences of sep.
RECURSIVE SplitOn(_, _, _, _)
SplitOn(s, sep, cur, acc) ==
    IF s = <<>> THEN Append(acc, cur)
    ELSE IF Head(s) = sep THEN SplitOn(Tail(s), sep, <<>>, Append(acc, cur))
    ELSE SplitOn(Tail(s), sep, Append(cur, Head(s)), acc)

IsDigitRun(s) == s # <<>> /\ \A i \in 1..Len(s) : IsDigit(s[i])

IsPortItem(s) ==
    LET parts == SplitOn(s, "-", <<>>, <<>>)
    IN  Len(parts) \in {1, 2} /\ \A i \in 1..Len(parts) : IsDigitRun(parts[i])

InPortGrammar(s) ==
    LET items == SplitOn(s, ",", <<>>, <<>>)
    IN  \A i \in 1..Len(items) : IsPortItem(items[i])

\* C13: either adapter refuses a non-empty port specification as malformed
\* exactly when it is not one or more comma-separated items, each a run of
\* digits optionally followed by '-' and a run of digits; a specification of
\* the grammar with the other fields left at their defaults is accepted and
\* the process is started.
C13_PortGrammar ==
    \A c \in Calls :
        (pc[c] # "idle" /\ config[c].Ports # <<>>) =>
            /\ PortError(c) <=> ~InPortGrammar(config[c].Ports)
            /\ (InPortGrammar(config[c].Ports) /\ config[c].Timing = <<>>
                /\ config[c].Threads = 0) => Started(c)

\* The specification "80-" has been refused as malformed.
C13_Witness ==
    \E c \in Calls :
        /\ config[c].Ports = <<"8", "0", "-">>
        /\ PortError(c) /\ ~Started(c)

\* A timing template that reads as an integer from 0 through 5: an optional
\* sign, zeros, and a last digit of at most 5 (0 after a minus sign).
TimingInRange(s) ==
    LET body == IF s # <<>> /\ Head(s) \in {"+", "-"} THEN Tail(s) ELSE s
    IN  /\ body # <<>>
        /\ \A i \in 1..(Len(body) - 1) : body[i] = "0"
        /\ body[Len(body)] \in {"0", "1", "2", "3", "4", "5"}
        /\ Head(s) = "-" => body[Len(body)] = "0"

\* C14: the nmap adapter refuses a non-empty timing value exactly when it
\* does not read as an integer from 0 through 5 (the port specification
\* being acceptable), never refuses an empty timing, and starts the process
\* when the timing is acceptable.
C14_TimingRange ==
    \A c \in Calls :
        (adapter[c] = "nmap" /\ pc[c] # "idle" /\ ~PortError(c)) =>
            /\ config[c].Timing = <<>> => (~TimingError(c) /\ Started(c))
            /\ config[c].Timing # <<>> =>
                  /\ TimingError(c) <=> ~TimingInRange(config[c].Timing)
                  /\ TimingInRange(config[c].Timing) => Started(c)

\* The timing "6" has been refused.
C14_Witness ==
    \E c \in Calls :
        /\ adapter[c] = "nmap" /\ config[c].Timing = <<"6">>
        /\ TimingError(c) /\ ~Started(c)

\* C15: the masscan adapter refuses an empty port specification whatever
\* the other fields are, and the call never starts a process.
C15_MasscanNeedsPorts ==
    \A c \in Calls :
        (adapter[c] = "masscan" /\ pc[c] # "idle" /\ config[c].Ports = <<>>) =>
            /\ Returned(c) /\ result[c] = NilResult /\ ~retErr[c].isnil
            /\ ~Started(c) /\ proc[c] = "none"

\* A masscan call with no ports, a thread count and extra arguments has
\* been refused.
C15_Witness ==
    \E c \in Calls :
        /\ adapter[c] = "masscan" /\ config[c].Ports = <<>>
        /\ config[c].Threads = 5 /\ config[c].Arguments # <<>>
        /\ Returned(c) /\ ~Started(c)

\* C16: the masscan adapter refuses a thread count above 100000, and in
\* every call it starts (a thread count of zero or below included) the
\* argument after "--rate" is the decimal text of an integer from 1 through
\* 100000.
C16_RateInRange ==
    \A c \in Calls :
        (adapter[c] = "masscan" /\ pc[c] # "idle") =>
            /\ config[c].Threads > 100000 => (Returned(c) /\ ~Started(c))
            /\ Started(c) =>
                  /\ args[c][4] = <<"-", "-", "r", "a", "t", "e">>
                  /\ IsDigitRun(args[c][5])
                  /\ DigitsVal(args[c][5], 0) \in 1..100000

\* A masscan call with a negative thread count has started at rate 1000.
C16_Witness ==
    \E c \in Calls :
        /\ adapter[c] = "masscan" /\ Started(c)
        /\ config[c].Threads = -1
        /\ args[c][5] = <<"1", "0", "0", "0">>

----------------------------------------------------------------------------
\* The parsers over many captured outputs.

\* Most host nodes of a document and most lines of an output drawn.
MaxHosts == 2
MaxLines == 3

Addr(a, t) == [Addr |-> a, AddrType |-> t]

\* The <address> nodes of a host node: none, a mac before the ipv4, two
\* ipv4, an ipv6 before the ipv4.
AddressLists ==
    {<<>>,
     <<Addr("AA:BB:CC:00:11:22", "mac"), Addr("10.0.0.5", "ipv4")>>,
     <<Addr("10.0.0.5", "ipv4"), Addr("10.0.0.6", "ipv4")>>,
     <<Addr("fe80::1", "ipv6"), Addr("10.0.0.6", "ipv4")>>}

HostnameLists == {<<>>, <<"router.local", "gw.local">>}

OSMatchLists ==
    {<<>>, <<[Name |-> "Linux 3.2 - 4.9", Accuracy |-> 96],
             [Name |-> "FreeBSD 11", Accuracy |-> 85]>>}

NmapNodes ==
    {HostNode(st, ad, hn, os) :
        st \in {"up", "down"}, ad \in AddressLists, hn \in HostnameLists,
        os \in OSMatchLists}

\* Documents an nmap process writes: <nmaprun> with up to MaxHosts host
\* nodes, and some that are cut short or are no markup.
NmapDocs ==
    {<<OpenTag>> \o ns \o <<CloseTag>> : ns \in SeqsUpTo(NmapNodes, MaxHosts)}
    \cup {<<>>, <<OpenTag>>, <<Junk>>, <<OpenTag, Junk, CloseTag>>}

\* Lines a masscan process writes: blank, not decodable, and records of
\* three ips (one of them without an ip field) with their port entries.
MasscanLineKinds ==
    {BlankLine, Junk}
    \cup {Record(ip, ps) : ip \in {"10.0.0.1", "10.0.0.2", ""},
                           ps \in {<<>>, <<PortEntry(80)>>, <<PortEntry(443)>>}}

MasscanDocs == SeqsUpTo(MasscanLineKinds, MaxLines)

Docs(a) == IF a = "nmap" THEN NmapDocs ELSE MasscanDocs

\* The configuration of the calls whose output is parsed.
ParseConfig == Cfg(<<"8", "0">>, <<>>, <<>>, 0)

\* cmd.Output is about to return: the process wrote doc, exited with status
\* 0 and was reaped, and the copy of its output is complete.
ParseInit ==
    \E a \in Adapters, t \in Targets :
      \E doc \in Docs(a) :
        /\ pc = [c \in OneCall |-> "copy"]
        /\ adapter = [c \in OneCall |-> a]
        /\ target = [c \in OneCall |-> t]
        /\ config = [c \in OneCall |-> ParseConfig]
        /\ args = [c \in OneCall |-> BuildArgs(a, t, ParseConfig)]
        /\ ctx = [c \in OneCall |-> "active"]
        /\ ctxDoneAt = [c \in OneCall |-> "never"]
        /\ proc = [c \in OneCall |-> "reaped"]
        /\ status = [c \in OneCall |-> "exit 0"]
        /\ spawned = [c \in OneCall |-> 1]
        /\ emitted = [c \in OneCall |-> doc]
        /\ pipe = [c \in OneCall |-> <<>>]
        /\ stdoutBuf = [c \in OneCall |-> doc]
        /\ copier = [c \in OneCall |-> "done"]
        /\ watcher = [c \in OneCall |-> "done"]
        /\ watchErr = [c \in OneCall |-> NilErr]
        /\ waitErr = [c \in OneCall |-> NilErr]
        /\ result = [c \in OneCall |-> NilResult]
        /\ retErr = [c \in OneCall |-> NilErr]
        /\ portsOut = [c \in OneCall |-> <<>>]
        /\ SideInit

ParseReturn == \E c \in Calls : ScanReturn(c)

\* Scan from the return of cmd.Output on, over the captured outputs.
ParseSpec == ParseInit /\ [][ParseReturn]_vars

\* The Port entities a Host carries.
HostPorts(h) == IF "Ports" \in DOMAIN h THEN h.Ports ELSE <<>>

\* A document with the <nmaprun> root and host nodes only.
WellFormedNmap(doc) ==
    /\ Len(doc) >= 2
    /\ doc[1].kind = "open" /\ doc[Len(doc)].kind = "close"
    /\ \A i \in 2..(Len(doc) - 1) : doc[i].kind = "host"

\* C17: for every well-formed nmap document the result has one Host per
\* host node, in document order: its status is the node's state, its IP the
\* first ipv4-typed address when the node has one, its hostname the first
\* hostname or empty, its OS and OS confidence the name and accuracy of the
\* first OS match or empty and 0, and it carries no ports.
C17_NmapHostPerNode ==
    \A c \in Calls :
        (Returned(c) /\ adapter[c] = "nmap" /\ WellFormedNmap(emitted[c])) =>
            /\ result[c].Status = "completed" /\ retErr[c].isnil
            /\ Len(result[c].Hosts) = Len(emitted[c]) - 2
            /\ \A k \in 1..Len(result[c].Hosts) :
                 LET h == result[c].Hosts[k]
                     n == emitted[c][k + 1]
                 IN  /\ h.Status = n.State
                     /\ \A i \in 1..Len(n.Address) :
                          (/\ n.Address[i].AddrType = "ipv4"
                           /\ \A j \in 1..(i - 1) : n.Address[j].AddrType # "ipv4")
                          => h.IPAddress = n.Address[i].Addr
                     /\ h.Hostname = IF n.Hostnames = <<>> THEN ""
                                     ELSE Head(n.Hostnames)
                     /\ h.OS = IF n.OSMatches = <<>> THEN ""
                               ELSE Head(n.OSMatches).Name
                     /\ h.OSConfidence = IF n.OSMatches = <<>> THEN 0
                                         ELSE Head(n.OSMatches).Accuracy
                     /\ HostPorts(h) = <<>>

\* A document of two host nodes has been parsed; the first has a mac before
\* its ipv4 address, two hostnames and two OS matches, the second none.
C17_Witness ==
    \E c \in Calls :
        /\ Returned(c) /\ adapter[c] = "nmap" /\ WellFormedNmap(emitted[c])
        /\ Len(result[c].Hosts) = 2
        /\ Len(emitted[c][2].Address) = 2
        /\ emitted[c][2].Address[1].AddrType = "mac"
        /\ result[c].Hosts[1].IPAddress = "10.0.0.5"
        /\ result[c].Hosts[1].Hostname = "router.local"
        /\ result[c].Hosts[1].OSConfidence = 96
        /\ result[c].Hosts[2].Status = "down"
        /\ result[c].Hosts[2].OS = ""

\* The lines of an output that decode as a record, in order.
RecordLines(doc) == SelectSeq(doc, LAMBDA l : l.kind = "record")

\* The ips of the records of an output.
RecordIPs(doc) == {RecordLines(doc)[i].IP : i \in 1..Len(RecordLines(doc))}

\* The first record of recs that carries ip.
FirstRecordOf(recs, ip) ==
    CHOOSE i \in 1..Len(recs) :
        recs[i].IP = ip /\ \A j \in 1..(i - 1) : recs[j].IP # ip

RECURSIVE PortEntriesIn(_, _)
\* The number of port entries in the first n records of recs.
PortEntriesIn(recs, n) ==
    IF n = 0 THEN 0 ELSE PortEntriesIn(recs, n - 1) + Len(recs[n].Ports)

\* The identifiers generated before record i of recs is folded: one for each
\* ip seen and one for each port entry.
IdsBefore(recs, i) ==
    Cardinality({recs[j].IP : j \in 1..(i - 1)}) + PortEntriesIn(recs, i - 1)

\* C18: the masscan fold returns one Host per distinct ip among the records
\* that decode, each with status "up" and with the identity it was given
\* when the first record of its ip was folded; later records of the ip
\* neither replace it nor add a second Host.
C18_OneHostPerIP ==
    \A c \in Calls :
        (Returned(c) /\ adapter[c] = "masscan") =>
            LET recs == RecordLines(emitted[c])
                hosts == result[c].Hosts
            IN  /\ Len(hosts) = Cardinality(RecordIPs(emitted[c]))
                /\ \A i \in 1..Len(hosts) :
                     /\ hosts[i].IPAddress \in RecordIPs(emitted[c])
                     /\ hosts[i].Status = "up"
                     /\ hosts[i].ID =
                           UUID(c, IdsBefore(recs, FirstRecordOf(recs, hosts[i].IPAddress)) + 1)
                /\ \A ip \in RecordIPs(emitted[c]) :
                     \E i \in 1..Len(hosts) : hosts[i].IPAddress = ip

\* Three records have been folded into two Hosts: 10.0.0.1, then 10.0.0.2,
\* then 10.0.0.1 again.
C18_Witness ==
    \E c \in Calls :
        /\ Returned(c) /\ adapter[c] = "masscan"
        /\ emitted[c] = <<Record("10.0.0.1", <<PortEntry(80)>>),
                          Record("10.0.0.2", <<>>),
                          Record("10.0.0.1", <<PortEntry(443)>>)>>
        /\ Len(result[c].Hosts) = 2
        /\ \E i \in 1..2 : /\ result[c].Hosts[i].IPAddress = "10.0.0.1"
                           /\ result[c].Hosts[i].ID = UUID(c, 1)

\* The port entries of the records of an output that carry ip, in order.
PortEntriesOf(doc, ip) ==
    LET recs == SelectSeq(RecordLines(doc), LAMBDA l : l.IP = ip)
    IN  Flatten([i \in 1..Len(recs) |-> recs[i].Ports])

\* C19: every port entry of every record that decodes is a Port of the
\* Host of the record's ip when the masscan adapter returns: each returned
\* Host carries, in order, one Port per port entry of its ip, with the
\* entry's number, protocol and state and the Host's identifier as owner.
C19_Claimed ==
    \A c \in Calls :
        (Returned(c) /\ adapter[c] = "masscan") =>
            \A i \in 1..Len(result[c].Hosts) :
                LET h == result[c].Hosts[i]
                    entries == PortEntriesOf(emitted[c], h.IPAddress)
                IN  /\ Len(HostPorts(h)) = Len(entries)
                    /\ \A j \in 1..Len(entries) :
                         /\ HostPorts(h)[j].HostID = h.ID
                         /\ HostPorts(h)[j].Number = entries[j].Port
                         /\ HostPorts(h)[j].Protocol = entries[j].Proto
                         /\ HostPorts(h)[j].State = entries[j].Status

----------------------------------------------------------------------------
\* The scanner registry under its callers.

\* Most RegisterScanner calls made.
MaxRegs == 3

Goroutines == DOMAIN gop

\* Scanners the callers register: two of the nmap adapter, one of masscan.
RegScanners ==
    {ScannerOf("nmap", "/usr/bin"), ScannerOf("nmap", "/usr/local/bin"),
     ScannerOf("masscan", "/usr/bin")}

\* Names the callers look up; no scanner has the last one.
LookupNames == {"nmap", "masscan", "zmap"}

\* Goroutine g is inside a method of the registry while another goroutine
\* is, and one of the two writes the map: the accesses are not ordered, as
\* ScannerManager holds no lock.
Racing(g) ==
    \E h \in Goroutines \ {g} :
        gop[h].op # "idle" /\ "register" \in {gop[g].op, gop[h].op}

CallsUnchanged ==
    UNCHANGED <<pc, adapter, target, config, args, ctx, ctxDoneAt, proc, status, spawned,
                emitted, pipe, stdoutBuf, copier, watcher, watchErr, waitErr, result, retErr,
                portsOut>>

\* Goroutine g enters the registry method op.
RegistryEnter(g, op, s, name) ==
    /\ ~crashed /\ ~scanMgr.isnil
    /\ gop[g].op = "idle"
    /\ gop' = [gop EXCEPT ![g] = [op |-> op, scanner |-> s, name |-> name]]
    /\ gret' = [gret EXCEPT ![g] = NoReturn]
    /\ UNCHANGED <<scanMgr, regLog, crashed, env, app, db>>
    /\ CallsUnchanged

\* Goroutine g leaves its registry method with the return value ret and the
\* registry sm; when its access races with another, the runtime may instead
\* stop the program ("fatal error: concurrent map writes", "concurrent map
\* read and map write").
RegistryLeave(g, sm, ret) ==
    /\ ~crashed
    /\ \/ /\ scanMgr' = sm
          /\ regLog' = IF gop[g].op = "register" THEN Append(regLog, gop[g].scanner)
                       ELSE regLog
          /\ gop' = [gop EXCEPT ![g] = Idle]
          /\ gret' = [gret EXCEPT ![g] = ret]
          /\ UNCHANGED crashed
       \/ /\ Racing(g)
          /\ crashed' = TRUE
          /\ UNCHANGED <<scanMgr, regLog, gop, gret>>
    /\ UNCHANGED <<env, app, db>>
    /\ CallsUnchanged

RegisterCall ==
    \E g \in Goroutines, s \in RegScanners :
        /\ Len(regLog) + Cardinality({h \in Goroutines : gop[h].op = "register"}) < MaxRegs
        /\ RegistryEnter(g, "register", s, GetName(s))

RegisterReturn ==
    \E g \in Goroutines :
        /\ gop[g].op = "register"
        /\ RegistryLeave(g, RegisterScanner(scanMgr, gop[g].scanner),
                         [NoReturn EXCEPT !.kind = "register"])

GetCall == \E g \in Goroutines, name \in LookupNames : RegistryEnter(g, "get", NoScanner, name)

GetReturn ==
    \E g \in Goroutines :
        /\ gop[g].op = "get"
        /\ RegistryLeave(g, scanMgr,
                         [kind |-> "get", name |-> gop[g].name,
                          scanner |-> GetScanner(scanMgr, gop[g].name).scanner,
                          exists |-> GetScanner(scanMgr, gop[g].name).exists,
                          names |-> <<>>])

ListCall == \E g \in Goroutines : RegistryEnter(g, "list", NoScanner, "")

ListReturn ==
    \E g \in Goroutines :
        /\ gop[g].op = "list"
        /\ \E names \in ListScanners(scanMgr) :
              RegistryLeave(g, scanMgr, [NoReturn EXCEPT !.kind = "list", !.names = names])

RegNext ==
    \/ RegisterCall
    \/ RegisterReturn
    \/ GetCall
    \/ GetReturn
    \/ ListCall
    \/ ListReturn

\* A registry just made by NewScannerManager, used by the goroutines gs.
RegInit(gs) ==
    /\ CallInit(OneCall)
    /\ scanMgr = NewScannerManager
    /\ gop = [g \in gs |-> Idle]
    /\ gret = [g \in gs |-> NoReturn]
    /\ regLog = <<>>
    /\ crashed = FALSE
    /\ env = DefaultEnv
    /\ app = AppStart
    /\ db = EmptyDB

\* The registry used by one goroutine: its methods run one after another.
RegSpec == RegInit(OneGoroutine) /\ [][RegNext]_vars

\* The scanner most recently registered under name, or the nil Scanner.
LastRegistered(name) ==
    LET idx == {i \in 1..Len(regLog) : GetName(regLog[i]) = name}
    IN  IF idx = {} THEN NoScanner
        ELSE regLog[CHOOSE i \in idx : \A j \in idx : j <= i]

\* C21: after any sequence of registry operations a lookup returns the
\* scanner most recently registered under the name, a later registration
\* having replaced an earlier one; a lookup of a name never registered
\* returns the nil scanner and false; no operation stops the program.
C21_LastRegistrationWins ==
    /\ ~crashed
    /\ \A g \in Goroutines :
          gret[g].kind = "get" =>
              /\ gret[g].scanner = LastRegistered(gret[g].name)
              /\ gret[g].exists <=> (\E i \in 1..Len(regLog) :
                                        GetName(regLog[i]) = gret[g].name)
              /\ ~gret[g].exists => gret[g].scanner = NoScanner

\* After two registrations under "nmap" a lookup of "nmap" has returned the
\* second scanner.
C21_Witness ==
    \E g \in Goroutines :
        /\ gret[g].kind = "get" /\ gret[g].name = "nmap" /\ gret[g].exists
        /\ regLog = <<ScannerOf("nmap", "/usr/bin"), ScannerOf("nmap", "/usr/local/bin")>>
        /\ gret[g].scanner = ScannerOf("nmap", "/usr/local/bin")

----------------------------------------------------------------------------
\* The program: initializeApp, then the command.

\* Where exec.LookPath finds an executable; "" is nowhere.
PathChoices == {"", "/usr/bin", "/usr/local/bin"}

\* The environments the program starts in.
AppEnvs == [cfgOK : BOOLEAN, dbOK : BOOLEAN, paths : [Adapters -> PathChoices]]

\* rootCmd's PersistentPreRunE
InitializeApp ==
    /\ app.pc = "start"
    /\ app' = initializeApp(env).app
    /\ scanMgr' = initializeApp(env).scanMgr
    /\ UNCHANGED <<gop, gret, regLog, crashed, env, db>>
    /\ CallsUnchanged

\* The scan command looks its --scanner flag up and goes on in simulation
\* mode when there is no such scanner.
ScanCommand ==
    \E g \in Goroutines, name \in LookupNames :
        /\ app.pc = "ready"
        /\ gret' = [gret EXCEPT ![g] =
                       [kind |-> "get", name |-> name,
                        scanner |-> GetScanner(scanMgr, name).scanner,
                        exists |-> GetScanner(scanMgr, name).exists,
                        names |-> <<>>]]
        /\ app' = [app EXCEPT !.pc = "done",
                              !.simulated = ~GetScanner(scanMgr, name).exists]
        /\ UNCHANGED <<scanMgr, gop, regLog, crashed, env, db>>
        /\ CallsUnchanged

\* The target, result, config and server commands use no scanner.
OtherCommand ==
    /\ app.pc = "ready"
    /\ app' = [app EXCEPT !.pc = "done"]
    /\ UNCHANGED <<scanMgr, gop, gret, regLog, crashed, env, db>>
    /\ CallsUnchanged

AppInit ==
    /\ CallInit(OneCall)
    /\ scanMgr = NoManager
    /\ gop = [g \in OneGoroutine |-> Idle]
    /\ gret = [g \in OneGoroutine |-> NoReturn]
    /\ regLog = <<>>
    /\ crashed = FALSE
    /\ env \in AppEnvs
    /\ app = AppStart
    /\ db = EmptyDB

AppNext ==
    \/ InitializeApp
    \/ ScanCommand
    \/ OtherCommand

AppSpec == AppInit /\ [][AppNext]_vars

\* C22: at the start of the program an adapter whose executable is missing
\* neither keeps the other adapter out of the registry nor makes
\* initializeApp fail: once the configuration has loaded, initializeApp
\* returns nil and each adapter is registered exactly when its own
\* executable was found.
C22_AdaptersRegisterIndependently ==
    /\ app.pc = "failed" => ~env.cfgOK
    /\ app.pc \in {"ready", "done"} =>
          /\ app.err.isnil /\ ~scanMgr.isnil
          /\ \A a \in Adapters :
                /\ a \in DOMAIN scanMgr.scanners <=> env.paths[a] # ""
                /\ a \in DOMAIN scanMgr.scanners =>
                      scanMgr.scanners[a] = [kind |-> a, path |-> env.paths[a]]
          /\ DOMAIN scanMgr.scanners \subseteq Adapters

\* initializeApp has returned nil with nmap missing and masscan registered.
C22_Witness ==
    /\ app.pc = "ready" /\ app.err.isnil
    /\ env.paths["nmap"] = ""
    /\ DOMAIN scanMgr.scanners = {"masscan"}

\* The goroutines of the concurrent specifications.
TwoGoroutines == {1, 2}

\* The registry used by two goroutines at once.
RaceSpec == RegInit(TwoGoroutines) /\ [][RegNext]_vars

----------------------------------------------------------------------------
\* Several calls of Scan at once.

\* Most chunks a process writes in the concurrent specification.
MaxConcOut == 1

\* The calls of the concurrent specification.
TwoCalls == {1, 2}

\* What the processes of concurrent calls write.
ConcChunks(a) ==
    IF a = "nmap" THEN {OpenTag, CloseTag}
    ELSE {Junk, Record("10.0.0.1", <<PortEntry(80)>>)}

ConcBegin ==
    \E c \in Calls, a \in Adapters, t \in Targets :
        ScanBegin(c, a, t, LiveConfig, TRUE)

ConcWrite ==
    \E c \in Calls :
        \E ch \in ConcChunks(adapter[c]) :
            Len(emitted[c]) < MaxConcOut /\ ProcWrite(c, ch)

ConcNext ==
    \/ ConcBegin
    \/ ConcWrite
    \/ Exit
    \/ Reap
    \/ Verdict
    \/ Copy
    \/ CopyEnd
    \/ Return

\* Two calls of Scan, on the same adapter or on different ones, interleaved
\* step by step.
ConcSpec == InitCalls(TwoCalls) /\ [][ConcNext]_vars


----------------------------------------------------------------------------
\* C25 as claimed: a call starts exactly one process when validation passes
\* and none when it fails.
C25_Claimed ==
    \A c \in Calls :
        /\ spawned[c] <= 1
        /\ (pc[c] # "idle" /\ Rejects(c)) => spawned[c] = 0
        /\ (pc[c] # "idle" /\ ~Rejects(c)) => spawned[c] = 1

\* C25: a call of Scan starts at most one process: none when validation
\* fails, none when cmd.Start fails (the executable cannot be run, or the
\* context is done already) and the call returns a failed result, and
\* exactly one otherwise; no outcome starts the process again.
C25_AtMostOneProcess ==
    \A c \in Calls :
        /\ spawned[c] <= 1
        /\ (pc[c] # "idle" /\ Rejects(c)) => spawned[c] = 0
        /\ (pc[c] # "idle" /\ ~Rejects(c)) =>
              \/ spawned[c] = 1
              \/ /\ spawned[c] = 0 /\ proc[c] = "none"
                 /\ Returned(c) /\ result[c].Status = "failed" /\ ~retErr[c].isnil
        /\ pc[c] \in {"wait", "watch", "copy"} => spawned[c] = 1

\* A call whose process exited with a failure has returned, having started
\* one process.
C25_Witness ==
    \E c \in Calls :
        /\ Returned(c) /\ status[c] = "exit 1" /\ result[c].Status = "failed"
        /\ spawned[c] = 1

----------------------------------------------------------------------------
\* What the caller does with a result: fetch the ports, persist the hosts
\* and the ports.

\* Most lines of an output and most inserts in the persistence specification.
MaxStoreLines == 2
MaxRows == 2

\* Host nodes: one with an ipv4 address and one with a mac address only.
StoreNodes ==
    {HostNode("up", <<Addr("10.0.0.5", "ipv4")>>, <<"router.local">>,
              <<[Name |-> "Linux 3.2 - 4.9", Accuracy |-> 96]>>),
     HostNode("down", <<Addr("AA:BB:CC:00:11:22", "mac")>>, <<>>, <<>>)}

\* Port entries as a record can carry them: any JSON number and strings.
StoreEntries ==
    [Port : {0, 80, MaxPortNumber + 1}, Proto : {"tcp", "sctp"},
     Status : {"open", "unknown"}]

StoreLines ==
    {Record("10.0.0.1", <<e>>) : e \in StoreEntries}
    \cup {Record("10.0.0.2", <<>>), Record("", <<>>)}

StoreDocs(a) ==
    IF a = "nmap"
    THEN {<<OpenTag>> \o ns \o <<CloseTag>> : ns \in SeqsUpTo(StoreNodes, MaxStoreLines)}
    ELSE SeqsUpTo(StoreLines, MaxStoreLines)

\* cmd.Output is about to return with one of the outputs above.
StoreInit ==
    \E a \in Adapters, t \in Targets :
      \E doc \in StoreDocs(a) :
        /\ pc = [c \in OneCall |-> "copy"]
        /\ adapter = [c \in OneCall |-> a]
        /\ target = [c \in OneCall |-> t]
        /\ config = [c \in OneCall |-> ParseConfig]
        /\ args = [c \in OneCall |-> BuildArgs(a, t, ParseConfig)]
        /\ ctx = [c \in OneCall |-> "active"]
        /\ ctxDoneAt = [c \in OneCall |-> "never"]
        /\ proc = [c \in OneCall |-> "reaped"]
        /\ status = [c \in OneCall |-> "exit 0"]
        /\ spawned = [c \in OneCall |-> 1]
        /\ emitted = [c \in OneCall |-> doc]
        /\ pipe = [c \in OneCall |-> <<>>]
        /\ stdoutBuf = [c \in OneCall |-> doc]
        /\ copier = [c \in OneCall |-> "done"]
        /\ watcher = [c \in OneCall |-> "done"]
        /\ watchErr = [c \in OneCall |-> NilErr]
        /\ waitErr = [c \in OneCall |-> NilErr]
        /\ result = [c \in OneCall |-> NilResult]
        /\ retErr = [c \in OneCall |-> NilErr]
        /\ portsOut = [c \in OneCall |-> <<>>]
        /\ SideInit

ScanUnchanged ==
    UNCHANGED <<pc, adapter, target, config, args, ctx, ctxDoneAt, proc, status, spawned,
                emitted, pipe, stdoutBuf, copier, watcher, watchErr, waitErr, retErr>>

\* The caller of a masscan Scan fetches the ports of one returned Host.
FetchPorts ==
    \E c \in Calls :
        /\ Returned(c) /\ adapter[c] = "masscan" /\ portsOut[c] = <<>>
        /\ \E i \in 1..Len(result[c].Hosts) :
              portsOut' = [portsOut EXCEPT ![c] =
                  GetPortsFromJSON(c, result[c].RawOutput, result[c].Hosts[i].ID,
                                   Len(result[c].Hosts)
                                   + Len(GetPortsFromJSON(c, result[c].RawOutput,
                                                          result[c].Hosts[i].ID, 0)))]
        /\ UNCHANGED <<result, scanMgr, gop, gret, regLog, crashed, env, app, db>>
        /\ ScanUnchanged

\* The caller persists one Host of the result.
SaveHost ==
    \E c \in Calls, up \in BOOLEAN :
        /\ Returned(c) /\ db.ids < MaxRows
        /\ \E i \in 1..Len(result[c].Hosts) :
              /\ result' = [result EXCEPT ![c].Hosts[i] =
                               CreateHost(db, result[c].Hosts[i], up).host]
              /\ db' = CreateHost(db, result[c].Hosts[i], up).db
        /\ UNCHANGED <<portsOut, scanMgr, gop, gret, regLog, crashed, env, app>>
        /\ ScanUnchanged

\* The caller persists one of the ports it fetched.
SavePort ==
    \E c \in Calls, up \in BOOLEAN :
        /\ Returned(c) /\ db.ids < MaxRows
        /\ \E j \in 1..Len(portsOut[c]) :
              /\ portsOut' = [portsOut EXCEPT ![c][j] =
                                 CreatePort(db, portsOut[c][j], up).port]
              /\ db' = CreatePort(db, portsOut[c][j], up).db
        /\ UNCHANGED <<result, scanMgr, gop, gret, regLog, crashed, env, app>>
        /\ ScanUnchanged

StoreNext ==
    \/ ParseReturn
    \/ FetchPorts
    \/ SaveHost
    \/ SavePort

\* Scan from the return of cmd.Output on, and its caller afterwards.
StoreSpec == StoreInit /\ [][StoreNext]_vars

\* C26: a result and the Hosts it owns are as the adapter returned them
\* whatever the caller persisted since: the Hosts are those the parser
\* produced, and each row of the hosts table is stored under the identifier
\* the adapter generated for its Host; each Port fetched keeps the identifier
\* the adapter generated for it.
C26_Claimed ==
    \A c \in Calls :
        (Returned(c) /\ ExecSucceeded(c)) =>
            /\ result[c].Hosts \in ParserHosts(c)
            /\ \A r \in 1..Len(db.hosts) :
                  \E hs \in ParserHosts(c) :
                      \E i \in 1..Len(hs) : hs[i].ID = db.hosts[r].id
            /\ \A j \in 1..Len(portsOut[c]) : portsOut[c][j].ID[1] = c


\* C27: every Host of a result either adapter returns, when the process
\* succeeded and its output parsed, has a non-empty IP address.
C27_Claimed ==
    \A c \in Calls :
        (Returned(c) /\ ExecSucceeded(c) /\ result[c].Status = "completed") =>
            \A i \in 1..Len(result[c].Hosts) : result[c].Hosts[i].IPAddress # ""


\* C28: every Port the masscan adapter built from a port entry of a record
\* has a number the ports table takes (1 to 65535), protocol tcp or udp and
\* state open, closed or filtered.
C28_Claimed ==
    \A c \in Calls :
        (Returned(c) /\ adapter[c] = "masscan") =>
            \A j \in 1..Len(portsOut[c]) :
                /\ portsOut[c][j].Number >= MinPortNumber
                /\ portsOut[c][j].Number <= MaxPortNumber
                /\ portsOut[c][j].Protocol \in PortProtocolCheck
                /\ portsOut[c][j].State \in PortStateCheck


\* C29: the status of every result Scan returns is one the scan_results
\* table accepts.
C29_Claimed ==
    \A c \in Calls :
        (Returned(c) /\ ~result[c].isnil) =>
            result[c].Status \in ScanResultStatusCheck


\* The same lines in every order.
Reorderings(lines) ==
    {[i \in 1..Len(lines) |-> lines[q[i]]] : q \in Orderings(1..Len(lines))}

\* The hosts of a slice as a set, each by its IP address and status.
HostSet(hosts) ==
    {<<hosts[i].IPAddress, hosts[i].Status>> : i \in 1..Len(hosts)}

\* C30: for the masscan adapter, whatever the order of the lines of the
\* output, the hosts returned are the same set when compared by IP address
\* and status: every parse of every reordering of the lines the process wrote
\* gives the set of the hosts the call returned.
C30_FoldIgnoresLineOrder ==
    \A c \in Calls :
        (Returned(c) /\ ExecSucceeded(c) /\ adapter[c] = "masscan") =>
            \A lines \in Reorderings(emitted[c]) :
                \A p \in parseMasscanJSON(c, lines) :
                    HostSet(p.hosts) = HostSet(result[c].Hosts)

\* A call returned two hosts from three lines, the second of which does not
\* decode and stands between the records of the two.
C30_Witness ==
    \E c \in Calls :
        /\ Returned(c) /\ ExecSucceeded(c) /\ adapter[c] = "masscan"
        /\ Len(emitted[c]) = 3
        /\ emitted[c][1].kind = "record"
        /\ emitted[c][2].kind = "junk"
        /\ emitted[c][3].kind = "record"
        /\ emitted[c][1].IP # emitted[c][3].IP
        /\ Len(result[c].Hosts) = 2

============================================================================
